---- MODULE Spec2Model ----
(***************************************************************************)
(* Model of the Grantees x402 payment gate: MerchantExecutor (challenge,   *)
(* local verification, direct and delegated settlement), the error         *)
(* classifier and the two paid handlers of server.ts.                      *)
(***************************************************************************)
EXTENDS Integers, FiniteSets, Sequences, TLC

VARIABLES
    exec,        \* the MerchantExecutor built at startup (mode, network, requirements)
    now,         \* wall clock, Math.floor(Date.now() / 1000)
    usedNonces,  \* chain state: <<from id, nonce>> pairs the token contract has consumed
    reqs,        \* per HTTP request: handler position, payload, results, response
    vIn,         \* payload handed to verifyPaymentLocally (verifier specification)
    vOut         \* what verifyPaymentLocally returned for vIn

vars == <<exec, now, usedNonces, reqs, vIn, vOut>>

-----------------------------------------------------------------------------
(* Bounds of the model *)

NReq == 2        \* concurrent HTTP requests
MaxTime == 3     \* clock values and timestamps range over 0..MaxTime
MaxPhrases == 2  \* phrases in one failure text
MaxEvents == 1   \* events the service of /process enqueues in one run

-----------------------------------------------------------------------------
(* Values: addresses, numbers as they arrive in JSON, failure texts *)

\* An address string: who it names and how it is written (EIP-55 or lower case).
Addr(id, form) == [id |-> id, form |-> form]
NoAddr == Addr("undefined", "none")
\* A JSON number where an address string is expected: it has no toLowerCase.
NumberAsAddr == Addr("5", "number")
toLowerCase(a) == IF a = NoAddr THEN a ELSE [a EXCEPT !.form = "lower"]

\* A JSON scalar meant as a number: an integer string, an unparsable string, or absent.
Num(n) == [kind |-> "int", n |-> n]
BadNum == [kind |-> "nan", n |-> 0]
NoNum == [kind |-> "undefined", n |-> 0]

\* A failure text is the set of phrases it contains.
Text(phrases) == phrases
LowerPhrase(p) ==
    CASE p = "Insufficient USDC" -> "insufficient usdc"
      [] p = "Transaction reverted" -> "transaction reverted"
      [] OTHER -> p
includes(text, phrase) == phrase \in text
includesLower(text, phrase) == \E p \in text : LowerPhrase(p) = phrase

\* A thrown error: its message and the revert reason its JSON form carries, if any.
Err(text, reason) == [message |-> text, revertReason |-> reason]

Parsed(code, message, suggestion) ==
    [code |-> code, message |-> message, suggestion |-> suggestion]

\* Mutant: the hint of a decoded revert quotes the revert reason.
parsePaymentError_quotingHint(error) ==
    LET errorStr == error.message IN
    IF includes(errorStr, "insufficient funds for gas")
       \/ includes(errorStr, "gas required exceeds allowance")
    THEN Parsed("INSUFFICIENT_GAS", Text({"Not enough native tokens for gas fees"}),
                "Fund the payer wallet with enough AVAX")
    ELSE IF includes(errorStr, "transfer amount exceeds balance")
            \/ includesLower(errorStr, "insufficient usdc")
    THEN Parsed("INSUFFICIENT_USDC", Text({"Not enough USDC for the transfer"}),
                "Fund the payer wallet with enough USDC")
    ELSE IF includes(errorStr, "execution reverted")
            \/ includes(errorStr, "transaction reverted")
    THEN Parsed("TRANSACTION_REVERTED", Text({"Transaction reverted by the token contract"}),
                "Common causes: expired authorization, reused nonce, invalid signature")
    ELSE IF includes(errorStr, "nonce too low")
            \/ includes(errorStr, "replacement transaction underpriced")
    THEN Parsed("NONCE_ISSUE", Text({"Nonce/transaction replacement issue"}),
                "Retry with a fresh transaction")
    ELSE IF error.revertReason # "none"
    THEN Parsed("REVERT_REASON", Text({"Reverted", error.revertReason}), error.revertReason)
    ELSE Parsed("UNKNOWN_ERROR", errorStr, "Check logs above for details")

\* Mutant: an unmatched failure is reported under a general message.
parsePaymentError_generalUnknown(error) ==
    LET errorStr == error.message IN
    IF includes(errorStr, "insufficient funds for gas")
       \/ includes(errorStr, "gas required exceeds allowance")
    THEN Parsed("INSUFFICIENT_GAS", Text({"Not enough native tokens for gas fees"}),
                "Fund the payer wallet with enough AVAX")
    ELSE IF includes(errorStr, "transfer amount exceeds balance")
            \/ includesLower(errorStr, "insufficient usdc")
    THEN Parsed("INSUFFICIENT_USDC", Text({"Not enough USDC for the transfer"}),
                "Fund the payer wallet with enough USDC")
    ELSE IF includes(errorStr, "execution reverted")
            \/ includes(errorStr, "transaction reverted")
    THEN Parsed("TRANSACTION_REVERTED", Text({"Transaction reverted by the token contract"}),
                "Common causes: expired authorization, reused nonce, invalid signature")
    ELSE IF includes(errorStr, "nonce too low")
            \/ includes(errorStr, "replacement transaction underpriced")
    THEN Parsed("NONCE_ISSUE", Text({"Nonce/transaction replacement issue"}),
                "Retry with a fresh transaction")
    ELSE IF error.revertReason # "none"
    THEN Parsed("REVERT_REASON", Text({"Reverted", error.revertReason}),
                "Check token contract requirements")
    ELSE Parsed("UNKNOWN_ERROR", Text({"Unknown error"}), "Check logs above for details")

\* Mutant: a revert is labelled as a balance problem.
parsePaymentError_revertAsBalance(error) ==
    LET errorStr == error.message IN
    IF includes(errorStr, "execution reverted") \/ includes(errorStr, "transaction reverted")
    THEN Parsed("INSUFFICIENT_USDC", Text({"Not enough USDC for the transfer"}),
                "Fund the payer wallet with enough USDC")
    ELSE Parsed("UNKNOWN_ERROR", errorStr, "Check logs above for details")

parsePaymentError(error) ==
    LET errorStr == error.message IN
    IF includes(errorStr, "insufficient funds for gas")
       \/ includes(errorStr, "gas required exceeds allowance")
    THEN Parsed("INSUFFICIENT_GAS", Text({"Not enough native tokens for gas fees"}),
                "Fund the payer wallet with enough AVAX")
    ELSE IF includes(errorStr, "transfer amount exceeds balance")
            \/ includesLower(errorStr, "insufficient usdc")
    THEN Parsed("INSUFFICIENT_USDC", Text({"Not enough USDC for the transfer"}),
                "Fund the payer wallet with enough USDC")
    ELSE IF includes(errorStr, "execution reverted")
            \/ includes(errorStr, "transaction reverted")
    THEN Parsed("TRANSACTION_REVERTED", Text({"Transaction reverted by the token contract"}),
                "Common causes: expired authorization, reused nonce, invalid signature")
    ELSE IF includes(errorStr, "nonce too low")
            \/ includes(errorStr, "replacement transaction underpriced")
    THEN Parsed("NONCE_ISSUE", Text({"Nonce/transaction replacement issue"}),
                "Retry with a fresh transaction")
    ELSE IF error.revertReason # "none"
    THEN Parsed("REVERT_REASON", Text({"Reverted", error.revertReason}),
                "Check token contract requirements")
    ELSE Parsed("UNKNOWN_ERROR", errorStr, "Check logs above for details")

\* parsePaymentError of the facilitator process: four kinds, its own messages.
facilitatorParsePaymentError(error) ==
    LET errorStr == error.message IN
    IF includes(errorStr, "insufficient funds for gas")
       \/ includes(errorStr, "gas required exceeds allowance")
    THEN Parsed("INSUFFICIENT_GAS", Text({"Not enough native tokens for gas fees"}),
                "Fund the facilitator EVM wallet with test AVAX")
    ELSE IF includes(errorStr, "transfer amount exceeds balance")
            \/ includesLower(errorStr, "insufficient usdc")
    THEN Parsed("INSUFFICIENT_USDC", Text({"Not enough USDC tokens for the payment"}),
                "Ensure the payer wallet has enough USDC")
    ELSE IF includes(errorStr, "execution reverted")
            \/ includes(errorStr, "transaction reverted")
    THEN Parsed("TRANSACTION_REVERTED", Text({"Transaction was reverted by the smart contract"}),
                "Common causes: expired authorization, reused nonce, invalid signature")
    ELSE Parsed("UNKNOWN_ERROR", errorStr, "Check logs above and verify the network")

-----------------------------------------------------------------------------
(* Network tables and construction of the executor *)

LegacyNetworks ==
    {"base", "base-sepolia", "polygon", "polygon-amoy", "avalanche",
     "avalanche-fuji", "iotex", "sei", "sei-testnet", "peaq"}

\* Mutant: the two Avalanche networks have each other's identifier.
NETWORK_MAP_avalancheSwapped ==
    [n \in LegacyNetworks |->
        CASE n = "base" -> "eip155:8453"
          [] n = "base-sepolia" -> "eip155:84532"
          [] n = "polygon" -> "eip155:137"
          [] n = "polygon-amoy" -> "eip155:80002"
          [] n = "avalanche" -> "eip155:43113"
          [] n = "avalanche-fuji" -> "eip155:43114"
          [] n = "iotex" -> "eip155:4689"
          [] n = "sei" -> "eip155:1329"
          [] n = "sei-testnet" -> "eip155:1328"
          [] n = "peaq" -> "eip155:3338"]

NETWORK_MAP ==
    [n \in LegacyNetworks |->
        CASE n = "base" -> "eip155:8453"
          [] n = "base-sepolia" -> "eip155:84532"
          [] n = "polygon" -> "eip155:137"
          [] n = "polygon-amoy" -> "eip155:80002"
          [] n = "avalanche" -> "eip155:43114"
          [] n = "avalanche-fuji" -> "eip155:43113"
          [] n = "iotex" -> "eip155:4689"
          [] n = "sei" -> "eip155:1329"
          [] n = "sei-testnet" -> "eip155:1328"
          [] n = "peaq" -> "eip155:3338"]

\* chainId, assetAddress (by name of the token deployment) and assetName per network.
BUILT_IN_NETWORKS ==
    [n \in LegacyNetworks |->
        CASE n = "base" -> [chainId |-> 8453, assetAddress |-> "usdc@base", assetName |-> "USD Coin"]
          [] n = "base-sepolia" -> [chainId |-> 84532, assetAddress |-> "usdc@base-sepolia", assetName |-> "USDC"]
          [] n = "polygon" -> [chainId |-> 137, assetAddress |-> "usdc@polygon", assetName |-> "USD Coin"]
          [] n = "polygon-amoy" -> [chainId |-> 80002, assetAddress |-> "usdc@polygon-amoy", assetName |-> "USDC"]
          [] n = "avalanche" -> [chainId |-> 43114, assetAddress |-> "usdc@avalanche", assetName |-> "USD Coin"]
          [] n = "avalanche-fuji" -> [chainId |-> 43113, assetAddress |-> "usdc@avalanche-fuji", assetName |-> "USD Coin"]
          [] n = "iotex" -> [chainId |-> 4689, assetAddress |-> "usdc@iotex", assetName |-> "Bridged USDC"]
          [] n = "sei" -> [chainId |-> 1329, assetAddress |-> "usdc@sei", assetName |-> "USDC"]
          [] n = "sei-testnet" -> [chainId |-> 1328, assetAddress |-> "usdc@sei-testnet", assetName |-> "USDC"]
          [] n = "peaq" -> [chainId |-> 3338, assetAddress |-> "usdc@peaq", assetName |-> "USDC"]]

\* A chain id that is NaN (a number to typeof, and falsy), next to 0 for an absent one.
NaNId == 0 - 1
Falsy(id) == id = 0 \/ id = NaNId

\* Number.parseInt(network.split(":")[1], 10) for the identifiers the model uses;
\* NaNId when the reference is no number, 0 when the network is no eip155 one.
Eip155Reference(network) ==
    IF \E n \in LegacyNetworks : NETWORK_MAP[n] = network
    THEN BUILT_IN_NETWORKS[CHOOSE n \in LegacyNetworks : NETWORK_MAP[n] = network].chainId
    ELSE IF network = "eip155:fuji" THEN NaNId
    ELSE 0

isCaip2(network) == network \notin LegacyNetworks /\ network # "unknown-net"

toCAIP2Network(network) ==
    IF isCaip2(network) THEN network
    ELSE IF network \in LegacyNetworks THEN NETWORK_MAP[network]
    ELSE "throw"

\* A price is a double: NaN, or the double nearest to a decimal that the model
\* carries in tenths of a micro-USDC (7 fractional decimals).
Price(tenths) == [kind |-> "finite", tenths |-> tenths]
NaNPrice == [kind |-> "nan", tenths |-> 0]

\* The prices of the model whose double product with 1_000_000 lies just below the
\* integer that the decimal product is: 1.001 * 1000000 = 1000999.9999999999.
ProductBelowInteger == {Price(10010000)}

\* Math.floor(priceUsd * 1_000_000).toString(): "NaN" for NaN; floor goes toward
\* minus infinity.
getAtomicAmount(priceUsd) ==
    IF priceUsd.kind = "nan" THEN BadNum
    ELSE LET atomicUnits == IF priceUsd \in ProductBelowInteger
                            THEN (priceUsd.tenths \div 10) - 1
                            ELSE priceUsd.tenths \div 10
         IN Num(atomicUnits)

\* new MerchantExecutor(options); ok = FALSE stands for a throwing constructor.
\* Absent options are "" (strings) and 0 (chainId).
MerchantExecutor(options) ==
    LET builtin == options.network \in LegacyNetworks
        assetAddress == IF options.assetAddress # "" THEN options.assetAddress
                        ELSE IF builtin THEN BUILT_IN_NETWORKS[options.network].assetAddress
                        ELSE ""
        assetName == IF options.assetName # "" THEN options.assetName
                     ELSE IF builtin THEN BUILT_IN_NETWORKS[options.network].assetName
                     ELSE ""
        chainId == IF options.chainId # 0 THEN options.chainId
                   ELSE IF builtin THEN BUILT_IN_NETWORKS[options.network].chainId
                   ELSE 0
        mode == IF options.settlementMode # "" THEN options.settlementMode
                ELSE IF options.facilitatorUrl # "" \/ options.privateKey = ""
                     THEN "facilitator" ELSE "direct"
        rpcUrl == IF options.rpcUrl # "" THEN options.rpcUrl
                  ELSE IF builtin THEN "default-rpc" ELSE ""
        network == toCAIP2Network(options.network)
    IN [ok |-> /\ network # "throw"
               /\ assetAddress # ""
               /\ assetName # ""
               /\ (mode = "direct" =>
                      options.privateKey # "" /\ rpcUrl # "" /\ chainId # 0),
        rpcUrl |-> IF mode = "direct" THEN rpcUrl ELSE "",
        mode |-> mode,
        network |-> network,
        legacyNetwork |-> options.network,
        chainId |-> chainId,
        assetName |-> assetName,
        hasWallet |-> mode = "direct",
        resourceServer |-> FALSE,
        route |-> options.route,
        resourceName |-> options.resourceName,
        resourceDescription |-> options.resourceDescription,
        mimeType |-> IF options.mimeType # "" THEN options.mimeType ELSE "application/json",
        facilitatorUrl |-> IF mode = "direct" THEN ""
                           ELSE IF options.facilitatorUrl # "" THEN options.facilitatorUrl
                           ELSE "https://x402.org/facilitator",
        requirements |->
            [scheme |-> "exact",
             network |-> network,
             asset |-> assetAddress,
             payTo |-> options.payToAddress,
             amount |-> getAtomicAmount(options.price),
             maxTimeoutSeconds |-> 600,
             extra |-> [name |-> assetName, version |-> "2"]]]

\* initialize(): in facilitator mode a resource server for the facilitator is made
\* (that the facilitator cannot be reached is not fatal); nothing in direct mode.
initialize(e) == IF e.mode # "facilitator" THEN e ELSE [e EXCEPT !.resourceServer = TRUE]

\* Mutant: the server's domain has the version of a token without EIP-3009 version 2.
buildEip712Domain_version1(e, requirements) ==
    LET fromNetwork == IF Falsy(e.chainId) /\ Eip155Reference(e.network) # 0
                       THEN Eip155Reference(e.network) ELSE e.chainId
        chainId == IF Falsy(fromNetwork) THEN 43113 ELSE fromNetwork
    IN [name |-> IF requirements.extra.name # "" THEN requirements.extra.name ELSE e.assetName,
        version |-> "1",
        chainId |-> chainId,
        verifyingContract |-> requirements.asset]

buildEip712Domain(e, requirements) ==
    LET fromNetwork == IF Falsy(e.chainId) /\ Eip155Reference(e.network) # 0
                       THEN Eip155Reference(e.network) ELSE e.chainId
        chainId == IF Falsy(fromNetwork) THEN 43113 ELSE fromNetwork
    IN [name |-> IF requirements.extra.name # "" THEN requirements.extra.name ELSE e.assetName,
        version |-> IF requirements.extra.version # "" THEN requirements.extra.version ELSE "2",
        chainId |-> chainId,
        verifyingContract |-> requirements.asset]

\* The body of the 402 challenge; "" stands for an option that was not given.
PaymentRequired(accepts, error, resource) ==
    [x402Version |-> 2, accepts |-> accepts, error |-> error, resource |-> resource]
NoChallenge ==
    [x402Version |-> 0, accepts |-> <<>>, error |-> "",
     resource |-> [name |-> "", description |-> "", mimeType |-> ""]]

\* Mutant: the challenge carries a requirement made for it, with its own timeout.
createPaymentRequiredResponse_ownRequirement(e) ==
    LET route == IF e.route # "" THEN e.route ELSE "/v1/github/analyze"
    IN PaymentRequired(<<[e.requirements EXCEPT !.maxTimeoutSeconds = 300]>>,
           "Payment required for Grantees: " \o route,
           [name |-> IF e.resourceName # "" THEN e.resourceName ELSE "Grantees API",
            description |-> IF e.resourceDescription # "" THEN e.resourceDescription
                            ELSE "Paid endpoint for grant intelligence + capital access insights.",
            mimeType |-> e.mimeType])

createPaymentRequiredResponse(e) ==
    LET route == IF e.route # "" THEN e.route ELSE "/v1/github/analyze"
    IN PaymentRequired(<<e.requirements>>,
           "Payment required for Grantees: " \o route,
           [name |-> IF e.resourceName # "" THEN e.resourceName ELSE "Grantees API",
            description |-> IF e.resourceDescription # "" THEN e.resourceDescription
                            ELSE "Paid endpoint for grant intelligence + capital access insights.",
            mimeType |-> e.mimeType])

\* The configuration server.ts builds from its environment (defaults: avalanche-fuji,
\* price 0.10), in each settlement mode.
PayTo == Addr("merchant", "checksum")
PriceRepoAnalysis == 1000000
ServerOptions ==
    {[payToAddress |-> PayTo, network |-> "avalanche-fuji", price |-> Price(PriceRepoAnalysis),
      settlementMode |-> m, facilitatorUrl |-> IF m = "facilitator" THEN "http://facilitator" ELSE "",
      privateKey |-> IF m = "direct" THEN "key" ELSE "", rpcUrl |-> IF m = "direct" THEN "rpc" ELSE "",
      assetAddress |-> "", assetName |-> "", chainId |-> 0,
      route |-> "/v1/github/analyze-paid", resourceName |-> "Grantees GitHub Repo Analysis",
      resourceDescription |-> "Analyzes a GitHub repo, scores quality, and matches grants.",
      mimeType |-> "application/json"] : m \in {"direct", "facilitator"}}

-----------------------------------------------------------------------------
(* Payment payloads and typed-data signatures *)

Authorization(from, to, value, validAfter, validBefore, nonce) ==
    [from |-> from, to |-> to, value |-> value,
     validAfter |-> validAfter, validBefore |-> validBefore, nonce |-> nonce]

\* Mutant: the nonce is not among the fields that are signed.
TypedMessage_withoutNonce(a) ==
    [ok |-> /\ a.from # NoAddr /\ a.to # NoAddr /\ a.to # NumberAsAddr
            /\ a.value.kind = "int" /\ a.value.n >= 0
            /\ a.validAfter.kind = "int" /\ a.validAfter.n >= 0
            /\ a.validBefore.kind = "int" /\ a.validBefore.n >= 0,
     from |-> a.from.id, to |-> a.to.id, value |-> a.value.n,
     validAfter |-> a.validAfter.n, validBefore |-> a.validBefore.n, nonce |-> ""]

\* The six fields as EIP-712 encodes them (address case is not part of the encoding);
\* ok = FALSE when a field cannot be encoded as its type.
TypedMessage(a) ==
    [ok |-> /\ a.from # NoAddr /\ a.to # NoAddr /\ a.to # NumberAsAddr
            /\ a.value.kind = "int" /\ a.value.n >= 0
            /\ a.validAfter.kind = "int" /\ a.validAfter.n >= 0
            /\ a.validBefore.kind = "int" /\ a.validBefore.n >= 0,
     from |-> a.from.id, to |-> a.to.id, value |-> a.value.n,
     validAfter |-> a.validAfter.n, validBefore |-> a.validBefore.n, nonce |-> a.nonce]

\* wallet.signTypedData(domain, TRANSFER_AUTH_TYPES, authorization)
signTypedData(signer, domain, a) ==
    [kind |-> "ok", signer |-> signer, domain |-> domain, msg |-> TypedMessage(a)]
NoDomain == [name |-> "", version |-> "", chainId |-> 0, verifyingContract |-> ""]
NoAuthorization == Authorization(NoAddr, NoAddr, NoNum, NoNum, NoNum, "")
NoSignature ==
    [kind |-> "missing", signer |-> "", domain |-> NoDomain, msg |-> TypedMessage(NoAuthorization)]
MalformedSignature == [NoSignature EXCEPT !.kind = "malformed"]

\* Mutant: the chain id of the domain is left out of what the signature covers.
verifyTypedData_ignoresChain(domain, a, signature) ==
    IF signature.kind # "ok" \/ ~TypedMessage(a).ok
    THEN [threw |-> TRUE, address |-> NoAddr]
    ELSE IF /\ [signature.domain EXCEPT !.chainId = 0] = [domain EXCEPT !.chainId = 0]
            /\ signature.msg = TypedMessage(a)
    THEN [threw |-> FALSE, address |-> Addr(signature.signer, "checksum")]
    ELSE [threw |-> FALSE, address |-> Addr("nobody", "checksum")]

\* ethers.verifyTypedData: throws on a malformed signature or an unencodable field,
\* recovers the signer when domain and message are the signed ones, and otherwise
\* recovers an address that belongs to nobody.
verifyTypedData(domain, a, signature) ==
    IF signature.kind # "ok" \/ ~TypedMessage(a).ok
    THEN [threw |-> TRUE, address |-> NoAddr]
    ELSE IF signature.domain = domain /\ signature.msg = TypedMessage(a)
    THEN [threw |-> FALSE, address |-> Addr(signature.signer, "checksum")]
    ELSE [threw |-> FALSE, address |-> Addr("nobody", "checksum")]

\* PaymentPayload: accepted.network (v2), network (v1), payload.authorization and
\* payload.signature; "" and hasAuth = FALSE stand for absent fields.
PaymentPayload(accepted, network, hasAuth, a, signature) ==
    [accepted |-> accepted, network |-> network, hasAuth |-> hasAuth,
     authorization |-> a, signature |-> signature]

-----------------------------------------------------------------------------
(* Local verification *)

Reason(s) == Text({s})
NoReason == Text({})
\* A VerifyResult, with two fields the code does not return: recoveryAttempted records
\* whether ethers.verifyTypedData was called on the way to it, and exception whether
\* an exception occurred on the way ("caught": it was converted into this result;
\* "thrown": the call ended by throwing, invalidReason holding the error's message).
Invalid(reason, recovery) ==
    [isValid |-> FALSE, payer |-> NoAddr, invalidReason |-> reason,
     recoveryAttempted |-> recovery, exception |-> "none"]
Valid(payer) ==
    [isValid |-> TRUE, payer |-> payer, invalidReason |-> NoReason,
     recoveryAttempted |-> TRUE, exception |-> "none"]
CaughtInvalid(reason, recovery) == [Invalid(reason, recovery) EXCEPT !.exception = "caught"]
ThrownFrom(error) == [Invalid(error.message, FALSE) EXCEPT !.exception = "thrown"]

NoVerify == Invalid(NoReason, FALSE)

\* BigInt(x) throws on anything but an integer string.
BigIntThrows(x) == x.kind # "int"
\* Number(x ?? 0): absent is 0, an unparsable string is NaN.
NumberOf(x) == IF x.kind = "undefined" THEN Num(0) ELSE x

\* Each check of verifyPaymentLocally: whether it returns, and with what.
Fails(reason) == [failed |-> TRUE, result |-> Invalid(reason, FALSE)]
FailsCaught(reason) == [failed |-> TRUE, result |-> CaughtInvalid(reason, FALSE)]
FailsThrowing(error) == [failed |-> TRUE, result |-> ThrownFrom(error)]
Passes == [failed |-> FALSE, result |-> NoVerify]

presenceCheck(payload) ==
    IF ~payload.hasAuth \/ payload.signature.kind = "missing"
    THEN Fails(Reason("Missing payment authorization data"))
    ELSE Passes

networkCheck(payload, requirements) ==
    LET payloadNetwork == IF payload.accepted # "" THEN payload.accepted ELSE payload.network
    IN IF payloadNetwork # requirements.network
       THEN Fails(Reason("Network mismatch"))
       ELSE Passes

recipientCheck(authorization, requirements) ==
    IF authorization.to.form = "number"
    THEN FailsThrowing(Err(Text({"authorization.to?.toLowerCase is not a function"}), "none"))
    ELSE IF toLowerCase(authorization.to) # toLowerCase(requirements.payTo)
    THEN Fails(Reason("Authorization recipient does not match requirement"))
    ELSE Passes

\* Mutant: the comparison rejects an exact payment.
amountCheck_rejectsEqual(authorization, requirements) ==
    IF BigIntThrows(requirements.amount) \/ BigIntThrows(authorization.value)
    THEN FailsCaught(Reason("Invalid payment amount provided"))
    ELSE IF authorization.value.n <= requirements.amount.n
    THEN Fails(Reason("Authorized amount is less than required amount"))
    ELSE Passes

amountCheck(authorization, requirements) ==
    IF BigIntThrows(requirements.amount) \/ BigIntThrows(authorization.value)
    THEN FailsCaught(Reason("Invalid payment amount provided"))
    ELSE IF authorization.value.n < requirements.amount.n
    THEN Fails(Reason("Authorized amount is less than required amount"))
    ELSE Passes

\* Mutant: the expiry comparison is left out.
timingCheck_noExpiry(authorization, clock) ==
    LET validAfterNum == NumberOf(authorization.validAfter)
        validBeforeNum == NumberOf(authorization.validBefore)
    IN IF validAfterNum.kind = "nan" \/ validBeforeNum.kind = "nan"
       THEN Fails(Reason("Invalid authorization timing fields"))
       ELSE IF validAfterNum.n > clock
       THEN Fails(Reason("Authorization not yet valid"))
       ELSE Passes

timingCheck(authorization, clock) ==
    LET validAfterNum == NumberOf(authorization.validAfter)
        validBeforeNum == NumberOf(authorization.validBefore)
    IN IF validAfterNum.kind = "nan" \/ validBeforeNum.kind = "nan"
       THEN Fails(Reason("Invalid authorization timing fields"))
       ELSE IF validAfterNum.n > clock
       THEN Fails(Reason("Authorization not yet valid"))
       ELSE IF validBeforeNum.n <= clock
       THEN Fails(Reason("Authorization expired"))
       ELSE Passes

\* Mutant: the recovered address is not compared with authorization.from.
signatureCheck_noCompare(e, payload, requirements) ==
    LET recovered == verifyTypedData(buildEip712Domain(e, requirements), payload.authorization,
                                     payload.signature)
    IN IF recovered.threw
       THEN CaughtInvalid(Reason("Signature verification failed"), TRUE)
       ELSE Valid(recovered.address)

\* The last block: recovery and the comparison with authorization.from.
signatureCheck(e, payload, requirements) ==
    LET authorization == payload.authorization
        recovered == verifyTypedData(buildEip712Domain(e, requirements), authorization,
                                     payload.signature)
    IN IF recovered.threw
       THEN CaughtInvalid(Reason("Signature verification failed"), TRUE)
       ELSE IF toLowerCase(recovered.address) # toLowerCase(authorization.from)
       THEN Invalid(Reason("Signature does not match payer address"), TRUE)
       ELSE Valid(recovered.address)

\* Mutant: the signature is recovered before the network is compared.
verifyPaymentLocally_signatureFirst(e, payload, requirements, clock) ==
    LET authorization == payload.authorization IN
    IF presenceCheck(payload).failed THEN presenceCheck(payload).result
    ELSE IF ~signatureCheck(e, payload, requirements).isValid
    THEN signatureCheck(e, payload, requirements)
    ELSE IF networkCheck(payload, requirements).failed
    THEN [networkCheck(payload, requirements).result EXCEPT !.recoveryAttempted = TRUE]
    ELSE IF recipientCheck(authorization, requirements).failed
    THEN [recipientCheck(authorization, requirements).result EXCEPT !.recoveryAttempted = TRUE]
    ELSE IF amountCheck(authorization, requirements).failed
    THEN [amountCheck(authorization, requirements).result EXCEPT !.recoveryAttempted = TRUE]
    ELSE IF timingCheck(authorization, clock).failed
    THEN [timingCheck(authorization, clock).result EXCEPT !.recoveryAttempted = TRUE]
    ELSE signatureCheck(e, payload, requirements)

\* Mutant: the verifier remembers that it has been asked before.
verifyPaymentLocally_remembers(e, payload, requirements, clock) ==
    LET authorization == payload.authorization IN
    IF vOut.done THEN Invalid(Reason("Authorization already presented"), FALSE)
    ELSE IF presenceCheck(payload).failed THEN presenceCheck(payload).result
    ELSE IF networkCheck(payload, requirements).failed
    THEN networkCheck(payload, requirements).result
    ELSE IF recipientCheck(authorization, requirements).failed
    THEN recipientCheck(authorization, requirements).result
    ELSE IF amountCheck(authorization, requirements).failed
    THEN amountCheck(authorization, requirements).result
    ELSE IF timingCheck(authorization, clock).failed
    THEN timingCheck(authorization, clock).result
    ELSE signatureCheck(e, payload, requirements)

verifyPaymentLocally(e, payload, requirements, clock) ==
    LET authorization == payload.authorization IN
    IF presenceCheck(payload).failed THEN presenceCheck(payload).result
    ELSE IF networkCheck(payload, requirements).failed
    THEN networkCheck(payload, requirements).result
    ELSE IF recipientCheck(authorization, requirements).failed
    THEN recipientCheck(authorization, requirements).result
    ELSE IF amountCheck(authorization, requirements).failed
    THEN amountCheck(authorization, requirements).result
    ELSE IF timingCheck(authorization, clock).failed
    THEN timingCheck(authorization, clock).result
    ELSE signatureCheck(e, payload, requirements)

-----------------------------------------------------------------------------
(* The chain and the facilitator, as the executor sees them *)

\* The signing domain of the token contract deployed on the configured network.
TokenDomain(e) ==
    [name |-> BUILT_IN_NETWORKS[e.legacyNetwork].assetName,
     version |-> "2",
     chainId |-> BUILT_IN_NETWORKS[e.legacyNetwork].chainId,
     verifyingContract |-> BUILT_IN_NETWORKS[e.legacyNetwork].assetAddress]

NonceOf(payload) == <<payload.authorization.from.id, payload.authorization.nonce>>

\* transferWithAuthorization of the token contract: the signature must be the
\* payer's over the contract's own domain, the block time strictly inside the
\* window, and the nonce unused.
ContractAccepts(e, payload, used, clock) ==
    LET a == payload.authorization
        rec == verifyTypedData(TokenDomain(e), a, payload.signature)
    IN /\ payload.hasAuth
       /\ ~rec.threw
       /\ rec.address.id = a.from.id
       /\ a.validAfter.n < clock /\ clock < a.validBefore.n
       /\ NonceOf(payload) \notin used

\* Failure texts an RPC endpoint or a facilitator transport can produce.
RpcFailureTexts ==
    {Text({"nonce too low"}), Text({"insufficient funds for gas"}), Text({"socket hang up"})}
RevertText == Text({"execution reverted"})

\* A SettlementResult, with two fields the code does not return: cause records why
\* the environment refused, and threw whether the call ended by throwing instead of
\* returning (errorReason then holds the error's message).
SettlementResult(success, transaction, network, payer, errorReason, cause) ==
    [success |-> success, transaction |-> transaction, network |-> network,
     payer |-> payer, errorReason |-> errorReason, cause |-> cause, threw |-> FALSE]
SettleThrown(error, cause) ==
    [SettlementResult(FALSE, "", "", NoAddr, error.message, cause) EXCEPT !.threw = TRUE]
NoSettlement == SettlementResult(FALSE, "", "", NoAddr, NoReason, "pending")

-----------------------------------------------------------------------------
(* Requests *)

Reqs == 1..NReq

\* createPaymentPayloadV2 of the test client: an authorization for the challenge's
\* requirement, signed by the wallet over the domain the requirement names.
createPaymentPayloadV2(requirement, wallet, nonce, clock) ==
    LET a == Authorization(Addr(wallet, "checksum"), requirement.payTo, requirement.amount,
                           Num(0), Num(clock + requirement.maxTimeoutSeconds), nonce)
        domain == [name |-> requirement.extra.name, version |-> requirement.extra.version,
                   chainId |-> Eip155Reference(requirement.network),
                   verifyingContract |-> requirement.asset]
    IN PaymentPayload(requirement.network, "", TRUE, a, signTypedData(wallet, domain, a))

NoPayload == PaymentPayload("", "", FALSE, NoAuthorization, NoSignature)

\* Payloads that requests carry: the client's, under two nonces, and one whose
\* signature was made by somebody other than the payer.
FlowPayloads(e, clock) ==
    LET good(n) == createPaymentPayloadV2(e.requirements, "payer", n, clock)
    IN {good("n1"), good("n2"),
        [good("n1") EXCEPT !.signature.signer = "mallory"]}

\* What the calls made on the verifier alone have returned so far: the first call of
\* verifyPaymentLocally, a second one with the same arguments, and a call of
\* verifyPayment.
NoOutput ==
    [done |-> FALSE, result |-> NoVerify, repeated |-> FALSE, second |-> NoVerify,
     publicDone |-> FALSE, publicResult |-> NoVerify]

\* The status of the receipt tx.wait() gave for the request's transaction, if any.
NoReceipt == 0 - 1

\* The response carries no task.
NoTask == "no task"

NewRequest ==
    [pc |-> "new", endpoint |-> "", hasPayload |-> FALSE, payload |-> NoPayload,
     bodyValid |-> FALSE, verifyDone |-> FALSE, verify |-> NoVerify,
     analyzed |-> FALSE, settleCalls |-> 0, broadcasts |-> 0, facilitatorSettles |-> 0,
     receiptStatus |-> NoReceipt,
     settlement |-> NoSettlement, status |-> 0, success |-> FALSE, paymentStatus |-> "",
     reason |-> NoReason, hasResult |-> FALSE,
     noPayment |-> FALSE, challenge |-> NoChallenge, serviceThrew |-> FALSE,
     taskState |-> "", events |-> << >>, returnedStatus |-> NoTask]

Respond(q, status, success, paymentStatus) ==
    [q EXCEPT !.pc = "done", !.status = status, !.success = success,
              !.paymentStatus = paymentStatus]

-----------------------------------------------------------------------------
(* MerchantExecutor: verifyPayment and settlePayment *)

\* callFacilitator: what the awaited fetch can give back. A thrown error covers an
\* unreachable facilitator and a non-OK status; otherwise the JSON body is the result.
Threw(error) == [threw |-> TRUE, error |-> error]
Returned(value) == [threw |-> FALSE, value |-> value]

FacilitatorVerifyReplies(payload) ==
    {Returned(Valid(payload.authorization.from)),
     Returned(Invalid(NoReason, FALSE)),
     Returned(Invalid(Reason("invalid_exact_evm_payload_signature"), FALSE)),
     Threw(Err(Text({"fetch failed"}), "none")),
     Threw(Err(Text({"Facilitator verify failed", "Missing paymentPayload or paymentRequirements"}), "none"))}

\* Mutant: the catch block lets the error go on.
verifyPaymentCatch_rethrows(error) == ThrownFrom(error)

\* The catch block of verifyPayment.
verifyPaymentCatch(error) == CaughtInvalid(parsePaymentError(error).message, FALSE)

\* Every result verifyPayment can resolve to for this payload at this time.
verifyPayment(e, payload, clock) ==
    IF e.mode = "direct"
    THEN LET result == verifyPaymentLocally(e, payload, e.requirements, clock)
         IN {IF result.exception = "thrown"
             THEN verifyPaymentCatch(Err(result.invalidReason, "none"))
             ELSE result}
    ELSE IF e.facilitatorUrl = ""
    THEN {verifyPaymentCatch(Err(Text({"Facilitator URL is not configured."}), "none"))}
    ELSE {IF reply.threw THEN verifyPaymentCatch(reply.error) ELSE reply.value :
            reply \in FacilitatorVerifyReplies(payload)}

\* settleOnChain before its first await: the early returns, and Signature.from.
settleOnChainEarly(e, payload, requirements) ==
    IF ~e.hasWallet
    THEN Returned(SettlementResult(FALSE, "", requirements.network, NoAddr,
                                   Reason("Settlement wallet not configured"), "config"))
    ELSE IF ~payload.hasAuth \/ payload.signature.kind = "missing"
    THEN Returned(SettlementResult(FALSE, "", requirements.network, NoAddr,
                                   Reason("Missing payment authorization data"), "payload"))
    ELSE IF payload.signature.kind = "malformed"
    THEN Returned(SettlementResult(FALSE, "", requirements.network, payload.authorization.from,
                                   Reason("invalid signature"), "payload"))
    ELSE Threw(Err(NoReason, "none"))

\* The catch block of settleOnChain: the raw message is the reason.
settleOnChainCatch(payload, requirements, error, cause) ==
    SettlementResult(FALSE, "", requirements.network, payload.authorization.from,
                     error.message, cause)

\* Mutant: any receipt counts as success.
settleOnChainReceipt_anyReceipt(payload, requirements, status, hash, cause) ==
    SettlementResult(TRUE, hash, requirements.network, payload.authorization.from, NoReason, cause)

\* Mutant: a reverted transaction is reported without its hash.
settleOnChainReceipt_dropsHash(payload, requirements, status, hash, cause) ==
    LET success == status = 1 IN
    SettlementResult(success, IF success THEN hash ELSE "", requirements.network,
                     payload.authorization.from,
                     IF success THEN NoReason ELSE Reason("Transaction reverted"), cause)

\* The result settleOnChain builds from the receipt.
settleOnChainReceipt(payload, requirements, status, hash, cause) ==
    LET success == status = 1 IN
    SettlementResult(success, hash, requirements.network, payload.authorization.from,
                     IF success THEN NoReason ELSE Reason("Transaction reverted"), cause)

\* Mutant: the catch block lets the error go on.
settlePaymentCatch_rethrows(e, error, cause) == SettleThrown(error, cause)

\* The catch block of settlePayment.
settlePaymentCatch(e, error, cause) ==
    SettlementResult(FALSE, "", e.network, NoAddr, parsePaymentError(error).message, cause)

\* Why a settlement failed, for the record: the contract refused a nonce it had
\* already consumed ("nonce"), refused for another reason ("other"), or the failure
\* was one of transport ("transport").
RejectionCause(payload, used, error) ==
    IF error.message \in {Text({"fetch failed"}), Text({"socket hang up"})} THEN "transport"
    ELSE IF NonceOf(payload) \in used THEN "nonce"
    ELSE "other"

\* The contract call of settleOnChain (gas estimation, then broadcast): a transfer
\* the contract would refuse is rejected with a revert; otherwise the transaction is
\* sent or the RPC endpoint fails.
SubmitReplies(e, payload, used, clock) ==
    IF ~ContractAccepts(e, payload, used, clock)
    THEN {Threw(Err(RevertText, "none"))}
    ELSE {Returned("sent")} \cup {Threw(Err(t, "none")) : t \in RpcFailureTexts}

\* tx.wait(): the receipt of the mined transaction (status 1 only for a transfer the
\* contract accepts), or an error of the client library.
ReceiptReplies(e, payload, used, clock) ==
    {Returned(0), Threw(Err(RevertText, "none")), Threw(Err(Text({"socket hang up"}), "none"))}
    \cup (IF ContractAccepts(e, payload, used, clock) THEN {Returned(1)} ELSE {})

\* The facilitator's answer to /settle: a SettlementResult (success only for a
\* transfer the contract accepts), or a transport failure.
FacilitatorSettleReplies(e, payload, used, clock) ==
    {Returned(SettlementResult(FALSE, "", e.network, payload.authorization.from,
                               Reason("invalid_transaction_state"),
                               RejectionCause(payload, used, Err(NoReason, "none")))),
     Threw(Err(Text({"fetch failed"}), "none")),
     Threw(Err(Text({"Facilitator settle failed", "Transaction was reverted by the smart contract"}), "none")),
     Threw(Err(Text({"Facilitator settle failed", "nonce too low"}), "none"))}
    \cup (IF ContractAccepts(e, payload, used, clock)
          THEN {Returned(SettlementResult(TRUE, "0xtx", e.network, payload.authorization.from,
                                          NoReason, "none"))}
          ELSE {})

-----------------------------------------------------------------------------
(* server.ts: POST /v1/github/analyze-paid and POST /process *)

\* What a request brings: the x402-payment-payload header (absent, a JSON payload,
\* the JSON text null, or a string that is no JSON), the payment payload of the body
\* or of the message metadata, and whether the rest of the body is well-formed.
Headers(payloads) ==
    {[kind |-> "absent", payload |-> NoPayload], [kind |-> "invalid", payload |-> NoPayload],
     [kind |-> "null", payload |-> NoPayload]}
    \cup {[kind |-> "json", payload |-> p] : p \in payloads}
\* The body names a repository (a URL or not) and a depth ("" when it gives none).
RepoUrls == {"https://github.com/owner/repo", "owner/repo"}
Depths == {"", "light", "full", "standard"}
Body(hasPayload, payload, repoUrl, depth) ==
    [hasPayload |-> hasPayload, payload |-> payload, repoUrl |-> repoUrl, depth |-> depth]
Bodies(payloads) ==
    {Body(FALSE, NoPayload, u, d) : u \in RepoUrls, d \in Depths}
    \cup {Body(TRUE, p, u, d) : p \in payloads, u \in RepoUrls, d \in Depths}

\* AnalyzeRepoRequest.safeParse: repoUrl is a URL and depth, if given, is one of
\* "light" and "full"; keys the schema does not know are dropped.
AnalyzeRepoRequest(body) ==
    [success |-> /\ body.repoUrl = "https://github.com/owner/repo"
                 /\ body.depth \in {"", "light", "full"}]
\* The message of /process: present or not, its x402.payment.payload metadata, and
\* whether its x402.payment.status is "payment-submitted".
Messages(payloads) ==
    {[present |-> m, hasPayload |-> FALSE, payload |-> NoPayload, submitted |-> sub] :
        m \in BOOLEAN, sub \in BOOLEAN}
    \cup {[present |-> TRUE, hasPayload |-> TRUE, payload |-> p, submitted |-> sub] :
            p \in payloads, sub \in BOOLEAN}

\* Mutant: a request without a payment payload goes on to verification.
analyzePaidReceive_noGate(e, q, header, body) ==
    LET fromHeader == header.kind # "absent"
        hasPayload == IF fromHeader THEN header.kind = "json" ELSE body.hasPayload
        paymentPayload == IF fromHeader THEN header.payload ELSE body.payload
        q1 == [q EXCEPT !.endpoint = "analyze-paid", !.bodyValid = AnalyzeRepoRequest(body).success,
                        !.noPayment = ~fromHeader /\ ~body.hasPayload]
    IN IF header.kind = "invalid" THEN Respond(q1, 500, FALSE, "")
       ELSE [q1 EXCEPT !.pc = "verify", !.hasPayload = hasPayload, !.payload = paymentPayload]

\* Mutant: the body field is preferred to the header.
analyzePaidReceive_bodyFirst(e, q, header, body) ==
    LET fromHeader == header.kind # "absent" /\ ~body.hasPayload
        hasPayload == IF fromHeader THEN header.kind = "json" ELSE body.hasPayload
        paymentPayload == IF fromHeader THEN header.payload ELSE body.payload
        q1 == [q EXCEPT !.endpoint = "analyze-paid", !.bodyValid = AnalyzeRepoRequest(body).success,
                        !.noPayment = header.kind = "absent" /\ ~body.hasPayload]
    IN IF fromHeader /\ header.kind = "invalid" THEN Respond(q1, 500, FALSE, "")
       ELSE IF ~hasPayload
       THEN Respond([q1 EXCEPT !.challenge = createPaymentRequiredResponse(e)],
                    402, FALSE, "payment-required")
       ELSE [q1 EXCEPT !.pc = "verify", !.hasPayload = TRUE, !.payload = paymentPayload]

\* analyze-paid up to the call of verifyPayment. noPayment records that the request
\* brought neither the header nor the body field.
analyzePaidReceive(e, q, header, body) ==
    LET fromHeader == header.kind # "absent"
        hasPayload == IF fromHeader THEN header.kind = "json" ELSE body.hasPayload
        paymentPayload == IF fromHeader THEN header.payload ELSE body.payload
        q1 == [q EXCEPT !.endpoint = "analyze-paid", !.bodyValid = AnalyzeRepoRequest(body).success,
                        !.noPayment = ~fromHeader /\ ~body.hasPayload]
    IN IF header.kind = "invalid" THEN Respond(q1, 500, FALSE, "")
       ELSE IF ~hasPayload
       THEN Respond([q1 EXCEPT !.challenge = createPaymentRequiredResponse(e)],
                    402, FALSE, "payment-required")
       ELSE [q1 EXCEPT !.pc = "verify", !.hasPayload = TRUE, !.payload = paymentPayload]

\* /process up to the call of verifyPayment. The task starts in state
\* input-required; the challenge is answered with the task itself.
processReceive(e, q, message) ==
    LET q1 == [q EXCEPT !.endpoint = "process", !.bodyValid = message.present]
        q2 == [q1 EXCEPT !.taskState = "input-required"]
    IN IF ~message.present THEN Respond(q1, 400, FALSE, "")
       ELSE IF ~message.hasPayload \/ ~message.submitted
       THEN Respond([q2 EXCEPT !.challenge = createPaymentRequiredResponse(e),
                               !.events = <<"task">>,
                               !.returnedStatus = "payment-required"],
                    200, FALSE, "payment-required")
       ELSE [q2 EXCEPT !.pc = "verify", !.hasPayload = TRUE, !.payload = message.payload]

\* The Task objects the service can give to enqueueEvent: the request's task
\* (context.currentTask), a copy of it made while the service ran, or a Task of the
\* service's own making.
ServiceTasks == {"task", "copy", "fresh"}

\* What the service enqueued, in order.
ServiceEvents == UNION {[1..n -> ServiceTasks] : n \in 0..MaxEvents}

\* x402.payment.status of a Task object when the response is written. The handler
\* replaces task.metadata after the service ran: the task carries the handler's last
\* status, a copy still holds the metadata of the time it was made, and a Task of
\* the service's own has none.
TaskStatus(object, paymentStatus) ==
    CASE object = "task" -> paymentStatus
      [] object = "copy" -> "payment-verified"
      [] OTHER -> ""

\* verifyResult.invalidReason || "Invalid payment"
RejectionReason(result) ==
    IF result.invalidReason = NoReason THEN Reason("Invalid payment") ELSE result.invalidReason

\* Mutant: the handler goes on whatever verifyPayment said.
afterVerify_ignoresResult(q, result) ==
    LET q1 == [q EXCEPT !.verifyDone = TRUE, !.verify = result]
    IN IF q.endpoint = "analyze-paid" /\ ~q.bodyValid THEN Respond(q1, 400, FALSE, "")
       ELSE [q1 EXCEPT !.pc = "service", !.paymentStatus = "payment-verified"]

\* From the result of verifyPayment to the call of the service. /process answers a
\* rejection with its task, in state failed.
afterVerify(q, result) ==
    LET q1 == [q EXCEPT !.verifyDone = TRUE, !.verify = result]
        rejected == IF q.endpoint = "process"
                    THEN [q1 EXCEPT !.taskState = "failed", !.events = <<"task">>,
                                    !.returnedStatus = "payment-rejected"]
                    ELSE q1
    IN IF result.exception = "thrown" THEN Respond(q1, 500, FALSE, q.paymentStatus)
       ELSE IF ~result.isValid
       THEN Respond([rejected EXCEPT !.reason = RejectionReason(result)], 402, FALSE,
                    "payment-rejected")
       ELSE IF q.endpoint = "analyze-paid" /\ ~q.bodyValid THEN Respond(q1, 400, FALSE, "")
       ELSE [q1 EXCEPT !.pc = "service", !.paymentStatus = "payment-verified"]

\* Mutant: the payment is settled whether or not the service produced a result.
afterService_settlesAnyway(q, threw, enqueued) ==
    [q EXCEPT !.analyzed = TRUE, !.serviceThrew = threw, !.events = enqueued,
              !.pc = "settle", !.settleCalls = @ + 1]

\* The service (analyzeGithubRepo, exampleService.execute) ran; then settlePayment is
\* called. serviceThrew records that the service ended by throwing, events what it
\* gave to enqueueEvent.
afterService(q, threw, enqueued) ==
    LET q1 == [q EXCEPT !.analyzed = TRUE, !.serviceThrew = threw, !.events = enqueued]
    IN IF threw THEN Respond(q1, 500, FALSE, q.paymentStatus)
       ELSE [q1 EXCEPT !.pc = "settle", !.settleCalls = @ + 1]

\* Mutant: a failed settlement is attempted once more.
afterSettle_retries(q, settlement) ==
    IF ~settlement.success /\ q.settleCalls < 2
    THEN [q EXCEPT !.pc = "settle", !.settleCalls = @ + 1]
    ELSE Respond([q EXCEPT !.settlement = settlement], 200, settlement.success,
                 IF settlement.success THEN "payment-completed" ELSE "payment-failed")

\* Mutant: a failed settlement is answered like a failed verification.
afterSettle_rejects(q, settlement) ==
    IF settlement.success
    THEN Respond([q EXCEPT !.settlement = settlement, !.hasResult = TRUE], 200, TRUE,
                 "payment-completed")
    ELSE Respond([q EXCEPT !.settlement = settlement, !.reason = settlement.errorReason],
                 402, FALSE, "payment-failed")

\* From the result of settlePayment to the response, which carries the settlement
\* and what the service produced: for /process the last event, which is the task
\* when the service enqueued nothing.
afterSettle(q, settlement) ==
    LET final == IF settlement.success THEN "payment-completed" ELSE "payment-failed"
        events == IF q.events = << >> THEN <<"task">> ELSE q.events
        returned == TaskStatus(events[Len(events)], final)
        q1 == IF q.endpoint = "process"
              THEN [q EXCEPT !.events = events, !.returnedStatus = returned]
              ELSE q
    IN IF settlement.threw
       THEN Respond([q EXCEPT !.settlement = settlement], 500, FALSE, q.paymentStatus)
       ELSE Respond([q1 EXCEPT !.settlement = settlement, !.hasResult = TRUE], 200,
                    settlement.success, final)

-----------------------------------------------------------------------------
(* Actions *)

ReceiveAnalyzePaid(r) ==
    /\ reqs[r].pc = "new"
    /\ \E header \in Headers(FlowPayloads(exec, now)), body \in Bodies(FlowPayloads(exec, now)) :
         reqs' = [reqs EXCEPT ![r] = analyzePaidReceive(exec, @, header, body)]
    /\ UNCHANGED <<exec, now, usedNonces, vIn, vOut>>

ReceiveProcess(r) ==
    /\ reqs[r].pc = "new"
    /\ \E message \in Messages(FlowPayloads(exec, now)) :
         reqs' = [reqs EXCEPT ![r] = processReceive(exec, @, message)]
    /\ UNCHANGED <<exec, now, usedNonces, vIn, vOut>>

Verify(r) ==
    /\ reqs[r].pc = "verify"
    /\ \E result \in verifyPayment(exec, reqs[r].payload, now) :
         reqs' = [reqs EXCEPT ![r] = afterVerify(@, result)]
    /\ UNCHANGED <<exec, now, usedNonces, vIn, vOut>>

Service(r) ==
    /\ reqs[r].pc = "service"
    /\ \E threw \in BOOLEAN,
          enqueued \in (IF reqs[r].endpoint = "process" THEN ServiceEvents ELSE {<< >>}) :
         reqs' = [reqs EXCEPT ![r] = afterService(@, threw, enqueued)]
    /\ UNCHANGED <<exec, now, usedNonces, vIn, vOut>>

\* settlePayment in direct mode, up to the broadcast of the transaction.
SettleSubmit(r) ==
    LET q == reqs[r]
        early == settleOnChainEarly(exec, q.payload, exec.requirements)
    IN /\ q.pc = "settle"
       /\ exec.mode = "direct"
       /\ IF ~early.threw
          THEN reqs' = [reqs EXCEPT ![r] = afterSettle(@, early.value)]
          ELSE \E reply \in SubmitReplies(exec, q.payload, usedNonces, now) :
                 reqs' = [reqs EXCEPT ![r] =
                    IF reply.threw
                    THEN afterSettle(@, settleOnChainCatch(q.payload, exec.requirements, reply.error,
                                        RejectionCause(q.payload, usedNonces, reply.error)))
                    ELSE [@ EXCEPT !.pc = "wait", !.broadcasts = @ + 1]]
       /\ UNCHANGED <<exec, now, usedNonces, vIn, vOut>>

\* settlePayment in direct mode, from the mined transaction to the response.
SettleReceipt(r) ==
    LET q == reqs[r]
    IN /\ q.pc = "wait"
       /\ \E reply \in ReceiptReplies(exec, q.payload, usedNonces, now) :
            LET cause == IF reply.threw THEN RejectionCause(q.payload, usedNonces, reply.error)
                         ELSE IF reply.value = 1 THEN "none"
                         ELSE RejectionCause(q.payload, usedNonces, Err(NoReason, "none"))
                result == IF reply.threw
                          THEN settleOnChainCatch(q.payload, exec.requirements, reply.error, cause)
                          ELSE settleOnChainReceipt(q.payload, exec.requirements, reply.value,
                                                    "0xtx", cause)
                status == IF reply.threw THEN NoReceipt ELSE reply.value
            IN /\ reqs' = [reqs EXCEPT ![r] =
                             afterSettle([@ EXCEPT !.receiptStatus = status], result)]
               /\ usedNonces' = IF ~reply.threw /\ reply.value = 1
                                THEN usedNonces \cup {NonceOf(q.payload)} ELSE usedNonces
       /\ UNCHANGED <<exec, now, vIn, vOut>>

\* Mutant: the strategy is taken from the request: /process settles through the
\* facilitator whatever the executor's mode.
SettleDelegated_byEndpoint(r) ==
    LET q == reqs[r]
    IN /\ q.pc = "settle"
       /\ q.endpoint = "process"
       /\ \E reply \in FacilitatorSettleReplies(exec, q.payload, usedNonces, now) :
            LET result == IF reply.threw
                          THEN settlePaymentCatch(exec, reply.error,
                                  RejectionCause(q.payload, usedNonces, reply.error))
                          ELSE reply.value
            IN /\ reqs' = [reqs EXCEPT ![r] =
                             afterSettle([@ EXCEPT !.facilitatorSettles = @ + 1], result)]
               /\ usedNonces' = IF result.success
                                THEN usedNonces \cup {NonceOf(q.payload)} ELSE usedNonces
       /\ UNCHANGED <<exec, now, vIn, vOut>>

\* settlePayment in facilitator mode: one POST to the facilitator's /settle.
SettleDelegated(r) ==
    LET q == reqs[r]
    IN /\ q.pc = "settle"
       /\ exec.mode = "facilitator"
       /\ \E reply \in FacilitatorSettleReplies(exec, q.payload, usedNonces, now) :
            LET result == IF reply.threw
                          THEN settlePaymentCatch(exec, reply.error,
                                  RejectionCause(q.payload, usedNonces, reply.error))
                          ELSE reply.value
            IN /\ reqs' = [reqs EXCEPT ![r] =
                             afterSettle([@ EXCEPT !.facilitatorSettles = @ + 1], result)]
               /\ usedNonces' = IF result.success
                                THEN usedNonces \cup {NonceOf(q.payload)} ELSE usedNonces
       /\ UNCHANGED <<exec, now, vIn, vOut>>

\* initialize() called on the running executor.
Initialize ==
    /\ exec' = initialize(exec)
    /\ UNCHANGED <<now, usedNonces, reqs, vIn, vOut>>

Init ==
    /\ exec \in {initialize(MerchantExecutor(o)) : o \in ServerOptions}
    /\ exec.ok
    /\ now = 1
    /\ usedNonces = {}
    /\ reqs = [r \in Reqs |-> NewRequest]
    /\ vIn = NoPayload
    /\ vOut = NoOutput

Next ==
    \E r \in Reqs :
        \/ ReceiveAnalyzePaid(r)
        \/ ReceiveProcess(r)
        \/ Verify(r)
        \/ Service(r)
        \/ SettleSubmit(r)
        \/ SettleReceipt(r)
        \/ SettleDelegated(r)
        \/ Initialize

Spec == Init /\ [][Next]_vars

-----------------------------------------------------------------------------
(* The verifier on its own: every payload shape against the server's requirement *)

Times == 0..MaxTime
TimeFields == {Num(t) : t \in Times} \cup {BadNum, NoNum}

\* Signatures a payload can carry for authorization a: none, a malformed one, the
\* payer's own, somebody else's, the payer's over another chain's domain, and the
\* payer's over an authorization whose value was changed afterwards.
SignatureKinds == {"none", "malformed", "payer", "mallory", "chain", "value"}
SignatureFor(e, a, kind) ==
    LET domain == buildEip712Domain(e, e.requirements) IN
    CASE kind = "none" -> NoSignature
      [] kind = "malformed" -> MalformedSignature
      [] kind = "payer" -> signTypedData(a.from.id, domain, a)
      [] kind = "mallory" -> signTypedData("mallory", domain, a)
      [] kind = "chain" -> signTypedData(a.from.id, [domain EXCEPT !.chainId = 84532], a)
      [] kind = "value" ->
            signTypedData(a.from.id, domain, [a EXCEPT !.value = Num(e.requirements.amount.n + 5)])

PayerAddresses == {Addr("payer", "checksum"), Addr("payer", "lower")}
RecipientAddresses(e) ==
    {e.requirements.payTo, toLowerCase(e.requirements.payTo), Addr("somebody", "checksum"),
     NoAddr, NumberAsAddr}
ValueFields(e) ==
    {Num(e.requirements.amount.n - 1), e.requirements.amount,
     Num(e.requirements.amount.n + 1), BadNum, NoNum}
PayloadNetworks(e) ==
    {<<e.requirements.network, "">>, <<"eip155:84532", "">>,
     <<"", e.requirements.network>>, <<"", "">>}

\* vIn is one of the payloads built from these fields, with or without authorization.
IsVerifyInput(e, payload) ==
    \E net \in PayloadNetworks(e), kind \in SignatureKinds :
        \/ /\ kind \in {"none", "malformed"}
           /\ payload = PaymentPayload(net[1], net[2], FALSE, NoAuthorization,
                                       SignatureFor(e, NoAuthorization, kind))
        \/ \E from \in PayerAddresses, to \in RecipientAddresses(e), value \in ValueFields(e),
              validAfter \in TimeFields, validBefore \in TimeFields :
             LET a == Authorization(from, to, value, validAfter, validBefore, "n1")
             IN payload = PaymentPayload(net[1], net[2], TRUE, a, SignatureFor(e, a, kind))

\* One call of verifyPaymentLocally with the executor's own requirement (the
\* executor calls it in direct mode only).
VerifyLocally ==
    /\ exec.mode = "direct"
    /\ ~vOut.done
    /\ vOut' = [vOut EXCEPT !.done = TRUE,
                            !.result = verifyPaymentLocally(exec, vIn, exec.requirements, now)]
    /\ UNCHANGED <<exec, now, usedNonces, reqs, vIn>>

\* A second call with the same payload, requirement, executor and time.
VerifyAgain ==
    /\ vOut.done /\ ~vOut.repeated
    /\ vOut' = [vOut EXCEPT !.repeated = TRUE,
                            !.second = verifyPaymentLocally(exec, vIn, exec.requirements, now)]
    /\ UNCHANGED <<exec, now, usedNonces, reqs, vIn>>

\* One call of verifyPayment, in either mode.
VerifyPublic ==
    /\ exec.mode = "direct" => vOut.repeated
    /\ ~vOut.publicDone
    /\ \E result \in verifyPayment(exec, vIn, now) :
         vOut' = [vOut EXCEPT !.publicDone = TRUE, !.publicResult = result]
    /\ UNCHANGED <<exec, now, usedNonces, reqs, vIn>>

NextVerify == VerifyLocally \/ VerifyAgain \/ VerifyPublic

InitVerify ==
    /\ exec \in {initialize(MerchantExecutor(o)) : o \in ServerOptions}
    /\ exec.ok
    /\ now \in Times
    /\ usedNonces = {}
    /\ reqs = [r \in Reqs |-> NewRequest]
    /\ IsVerifyInput(exec, vIn)
    /\ vOut = NoOutput

SpecVerify == InitVerify /\ [][NextVerify]_vars

-----------------------------------------------------------------------------
(* The classifier on its own: every failure text through every catch block *)

\* Phrases a failure text can contain: those the classifiers look for, in the cases
\* they look for and in others, and some they do not know.
FailurePhrases ==
    {"insufficient funds for gas", "gas required exceeds allowance",
     "transfer amount exceeds balance", "Insufficient USDC",
     "execution reverted", "transaction reverted", "Transaction reverted",
     "nonce too low", "replacement transaction underpriced",
     "fetch failed", "Facilitator settle failed", "socket hang up"}
\* A thrown error: a text of at most MaxPhrases phrases, with or without a revert
\* reason in its JSON form.
FailureInputs ==
    {Err(Text(t), reason) :
        t \in {u \in SUBSET FailurePhrases : Cardinality(u) <= MaxPhrases},
        reason \in {"none", "authorization is used or canceled"}}

NoParsed == Parsed("", NoReason, "")
NoClassified ==
    [done |-> FALSE, parsed |-> NoParsed, facilitatorParsed |-> NoParsed,
     direct |-> NoSettlement, delegated |-> NoSettlement, verify |-> NoVerify]

\* The error vIn goes through both classifiers and through the three catch blocks
\* of the executor.
Classify ==
    /\ ~vOut.done
    /\ vOut' = [done |-> TRUE,
                parsed |-> parsePaymentError(vIn),
                facilitatorParsed |-> facilitatorParsePaymentError(vIn),
                direct |-> settleOnChainCatch(
                              createPaymentPayloadV2(exec.requirements, "payer", "n1", now),
                              exec.requirements, vIn, "other"),
                delegated |-> settlePaymentCatch(exec, vIn, "other"),
                verify |-> verifyPaymentCatch(vIn)]
    /\ UNCHANGED <<exec, now, usedNonces, reqs, vIn>>

InitClassify ==
    /\ exec \in {initialize(MerchantExecutor(o)) : o \in ServerOptions}
    /\ exec.ok
    /\ now = 1
    /\ usedNonces = {}
    /\ reqs = [r \in Reqs |-> NewRequest]
    /\ vIn \in FailureInputs
    /\ vOut = NoClassified

SpecClassify == InitClassify /\ [][Classify]_vars

-----------------------------------------------------------------------------
(* Startup of the server: from the environment to a listening server *)

\* What the environment can hold; "" is an unset variable. NETWORK is given in lower
\* case, as server.ts makes it.
SUPPORTED_NETWORKS == LegacyNetworks \cup {NETWORK_MAP[n] : n \in LegacyNetworks}
Environments ==
    [PAY_TO_ADDRESS : {"", "merchant"},
     NETWORK : {"avalanche-fuji", "base-sepolia", "eip155:43113", "eip155:fuji", "unknown-net"},
     SETTLEMENT_MODE : {"", "direct", "facilitator"},
     PRIVATE_KEY : {"", "key"},
     RPC_URL : {"", "rpc"},
     FACILITATOR_URL : {"", "http://facilitator"},
     ASSET : {"", "token"},
     CHAIN_ID : {"", "43113", "abc"},
     PRICE_REPO_ANALYSIS_USDC : {"", "1.001", "0.0000019", "-0.0000005", "free"}]

\* Number.parseFloat and Number.parseInt(_, 10) of the texts above.
parseFloat(text) ==
    CASE text = "1.001" -> Price(10010000)
      [] text = "0.0000019" -> Price(19)
      [] text = "-0.0000005" -> Price(0 - 5)
      [] OTHER -> NaNPrice
parseInt(text) == IF text = "43113" THEN 43113 ELSE NaNId

\* Mutant: a private key decides before a facilitator URL does.
settlementModeOf_keyFirst(env) ==
    IF env.SETTLEMENT_MODE \in {"local", "direct"} THEN "direct"
    ELSE IF env.SETTLEMENT_MODE = "facilitator" THEN "facilitator"
    ELSE IF env.PRIVATE_KEY # "" THEN "direct"
    ELSE "facilitator"

settlementModeOf(env) ==
    IF env.SETTLEMENT_MODE \in {"local", "direct"} THEN "direct"
    ELSE IF env.SETTLEMENT_MODE = "facilitator" THEN "facilitator"
    ELSE IF env.FACILITATOR_URL # "" THEN "facilitator"
    ELSE IF env.PRIVATE_KEY # "" THEN "direct"
    ELSE "facilitator"

\* ASSET stands for ASSET_ADDRESS and ASSET_NAME, set together or not at all.
merchantOptions(env) ==
    [payToAddress |-> Addr(env.PAY_TO_ADDRESS, "checksum"),
     network |-> env.NETWORK,
     price |-> IF env.PRICE_REPO_ANALYSIS_USDC = "" THEN Price(PriceRepoAnalysis)
               ELSE parseFloat(env.PRICE_REPO_ANALYSIS_USDC),
     settlementMode |-> settlementModeOf(env),
     rpcUrl |-> env.RPC_URL, privateKey |-> env.PRIVATE_KEY,
     facilitatorUrl |-> env.FACILITATOR_URL,
     assetAddress |-> env.ASSET,
     assetName |-> IF env.ASSET = "" THEN "" ELSE "Token",
     chainId |-> IF env.CHAIN_ID = "" THEN 0 ELSE parseInt(env.CHAIN_ID),
     route |-> "/v1/github/analyze-paid", resourceName |-> "Grantees GitHub Repo Analysis",
     resourceDescription |-> "Analyzes a GitHub repo, scores quality, and matches grants.",
     mimeType |-> "application/json"]

\* The executor variable before new MerchantExecutor has returned.
Unconstructed ==
    [MerchantExecutor(CHOOSE o \in ServerOptions : o.settlementMode = "facilitator")
        EXCEPT !.ok = FALSE]

\* The module body of server.ts and startServer: process.exit(1) on a configuration
\* it refuses, a crash when the constructor throws, app.listen otherwise.
startServer(env) ==
    IF env.PAY_TO_ADDRESS = "" THEN [phase |-> "exited", executor |-> Unconstructed]
    ELSE IF ~(env.NETWORK \in SUPPORTED_NETWORKS \/ isCaip2(env.NETWORK))
    THEN [phase |-> "exited", executor |-> Unconstructed]
    ELSE IF settlementModeOf(env) = "direct" /\ (env.PRIVATE_KEY = "" \/ env.RPC_URL = "")
    THEN [phase |-> "exited", executor |-> Unconstructed]
    ELSE LET e == MerchantExecutor(merchantOptions(env))
         IN IF e.ok THEN [phase |-> "listening", executor |-> initialize(e)]
            ELSE [phase |-> "crashed", executor |-> Unconstructed]

NoStartup == [phase |-> "configured", domainBuilt |-> FALSE, domain |-> NoDomain]

StartServer ==
    /\ vOut.phase = "configured"
    /\ LET started == startServer(vIn)
       IN /\ exec' = started.executor
          /\ vOut' = [vOut EXCEPT !.phase = started.phase]
    /\ UNCHANGED <<now, usedNonces, reqs, vIn>>

\* A request without payment reaches the listening server.
ServeUnpaid(r) ==
    /\ vOut.phase = "listening"
    /\ reqs[r].pc = "new"
    /\ \E body \in Bodies({}) :
         reqs' = [reqs EXCEPT ![r] =
                    analyzePaidReceive(exec, @, [kind |-> "absent", payload |-> NoPayload], body)]
    /\ UNCHANGED <<exec, now, usedNonces, vIn, vOut>>

\* A request arrives that pays as the challenge asks, and is verified; in direct
\* mode the verifier builds its signing domain for it.
ServePaid(r) ==
    /\ vOut.phase = "listening"
    /\ reqs[r].pc = "new"
    /\ LET payload == createPaymentPayloadV2(exec.requirements, "payer", "n1", now)
           body == Body(TRUE, payload, "https://github.com/owner/repo", "light")
           q == analyzePaidReceive(exec, reqs[r], [kind |-> "absent", payload |-> NoPayload], body)
       IN \E result \in verifyPayment(exec, payload, now) :
            /\ reqs' = [reqs EXCEPT ![r] = afterVerify(q, result)]
            /\ vOut' = IF exec.mode = "direct"
                       THEN [vOut EXCEPT !.domainBuilt = TRUE,
                                         !.domain = buildEip712Domain(exec, exec.requirements)]
                       ELSE vOut
    /\ UNCHANGED <<exec, now, usedNonces, vIn>>

NextStartup == StartServer \/ \E r \in Reqs : ServeUnpaid(r) \/ ServePaid(r)

InitStartup ==
    /\ vIn \in Environments
    /\ exec = Unconstructed
    /\ now = 1
    /\ usedNonces = {}
    /\ reqs = [r \in Reqs |-> NewRequest]
    /\ vOut = NoStartup

SpecStartup == InitStartup /\ [][NextStartup]_vars

-----------------------------------------------------------------------------
(* The settlement mode: the server's selection and the executor's own default *)

\* Environments that differ in what decides the mode; SETTLEMENT_MODE is given in
\* lower case, as server.ts makes it, and "hybrid" is a value it does not know.
ModeEnvironments ==
    [PAY_TO_ADDRESS : {"merchant"}, NETWORK : {"avalanche-fuji"},
     SETTLEMENT_MODE : {"", "direct", "local", "facilitator", "hybrid"},
     PRIVATE_KEY : {"", "key"}, RPC_URL : {"", "rpc"},
     FACILITATOR_URL : {"", "http://facilitator"},
     ASSET : {""}, CHAIN_ID : {""}, PRICE_REPO_ANALYSIS_USDC : {""}]

NoModes == [phase |-> "configured", constructed |-> FALSE, ownMode |-> ""]

\* new MerchantExecutor with the server's options but no settlementMode: the
\* constructor's own default decides.
ConstructWithoutMode ==
    /\ ~vOut.constructed
    /\ vOut' = [vOut EXCEPT !.constructed = TRUE,
                            !.ownMode = MerchantExecutor([merchantOptions(vIn) EXCEPT
                                                            !.settlementMode = ""]).mode]
    /\ UNCHANGED <<exec, now, usedNonces, reqs, vIn>>

NextMode == StartServer \/ ConstructWithoutMode

InitMode ==
    /\ vIn \in ModeEnvironments
    /\ exec = Unconstructed
    /\ now = 1
    /\ usedNonces = {}
    /\ reqs = [r \in Reqs |-> NewRequest]
    /\ vOut = NoModes

SpecMode == InitMode /\ [][NextMode]_vars

-----------------------------------------------------------------------------
(* The test client against the server: challenge, signature, paid request *)

\* chainIdFromNetwork of the client; a result that is falsy makes the client throw.
chainIdFromNetwork(network) ==
    IF network \in LegacyNetworks THEN BUILT_IN_NETWORKS[network].chainId
    ELSE Eip155Reference(network)

\* pickEvmRequirement: the first requirement of an eip155 network (or of one of the
\* two legacy Avalanche names); 0 when the challenge offers none.
pickEvmRequirement(paymentRequired) ==
    LET evm == {i \in 1..Len(paymentRequired.accepts) :
                  \/ Eip155Reference(paymentRequired.accepts[i].network) # 0
                  \/ paymentRequired.accepts[i].network \in {"avalanche-fuji", "avalanche"}}
    IN IF evm = {} THEN 0 ELSE CHOOSE i \in evm : \A j \in evm : i <= j

\* createPaymentPayloadEvm, for a challenge that offers an EVM requirement.
createPaymentPayloadEvm(paymentRequired, wallet, nonce, clock) ==
    LET req == paymentRequired.accepts[pickEvmRequirement(paymentRequired)]
        authorization == Authorization(Addr(wallet, "checksum"), req.payTo, req.amount, Num(0),
                                       Num(clock + req.maxTimeoutSeconds), nonce)
        domain == [name |-> IF req.extra.name # "" THEN req.extra.name ELSE "USDC",
                   version |-> IF req.extra.version # "" THEN req.extra.version ELSE "2",
                   chainId |-> chainIdFromNetwork(req.network),
                   verifyingContract |-> req.asset]
    IN PaymentPayload(req.network, "", TRUE, authorization,
                      signTypedData(wallet, domain, authorization))

\* The two requests of analyzeRepoPaid(repoUrl, depth) and the body both carry; the
\* depth is "standard" unless the caller names another.
ChallengeRequest == 1
PaidRequest == 2
ClientDepths == {"standard", "light"}
TestClientBody(hasPayload, payload, depth) ==
    Body(hasPayload, payload, "https://github.com/owner/repo", depth)
NoClient == [step |-> "start", depth |-> "standard", challenge |-> NoChallenge,
             payload |-> NoPayload]

\* The clock reaches at most the second after the expiry of a payload signed at
\* the latest time of signing.
ClockLimit == MaxTime + 600 + 1

\* Time passes: a second, or as long as an authorization lasts.
Tick ==
    /\ \E d \in {1, exec.requirements.maxTimeoutSeconds} :
         /\ now + d <= ClockLimit
         /\ now' = now + d
    /\ UNCHANGED <<exec, usedNonces, reqs, vIn, vOut>>

\* requestPaymentRequired: the request without payment and the check of its answer.
RequestPaymentRequired ==
    /\ vOut.step = "start"
    /\ LET q == analyzePaidReceive(exec, reqs[ChallengeRequest],
                                   [kind |-> "absent", payload |-> NoPayload],
                                   TestClientBody(FALSE, NoPayload, vOut.depth))
       IN /\ reqs' = [reqs EXCEPT ![ChallengeRequest] = q]
          /\ vOut' = IF q.status = 402
                     THEN [vOut EXCEPT !.step = "challenged", !.challenge = q.challenge]
                     ELSE [vOut EXCEPT !.step = "failed"]
    /\ UNCHANGED <<exec, now, usedNonces, vIn>>

\* createPaymentPayloadEvm with the client's wallet, at the client's time.
SignPayment ==
    /\ vOut.step = "challenged"
    /\ now <= MaxTime
    /\ vOut' = IF pickEvmRequirement(vOut.challenge) = 0
               THEN [vOut EXCEPT !.step = "failed"]
               ELSE [vOut EXCEPT !.step = "signed",
                                 !.payload = createPaymentPayloadEvm(vOut.challenge, "payer", "n1", now)]
    /\ UNCHANGED <<exec, now, usedNonces, reqs, vIn>>

\* The paid request arrives at the server.
SubmitPaid ==
    /\ vOut.step = "signed"
    /\ reqs' = [reqs EXCEPT ![PaidRequest] =
                  analyzePaidReceive(exec, @, [kind |-> "absent", payload |-> NoPayload],
                                     TestClientBody(TRUE, vOut.payload, vOut.depth))]
    /\ vOut' = [vOut EXCEPT !.step = "submitted"]
    /\ UNCHANGED <<exec, now, usedNonces, vIn>>

NextClient ==
    \/ Tick
    \/ RequestPaymentRequired
    \/ SignPayment
    \/ SubmitPaid
    \/ Verify(PaidRequest)
    \/ Service(PaidRequest)
    \/ SettleSubmit(PaidRequest)
    \/ SettleReceipt(PaidRequest)
    \/ SettleDelegated(PaidRequest)

InitClient ==
    /\ exec \in {initialize(MerchantExecutor(o)) : o \in ServerOptions}
    /\ exec.ok
    /\ now = 1
    /\ usedNonces = {}
    /\ reqs = [r \in Reqs |-> NewRequest]
    /\ vIn = NoPayload
    /\ vOut \in {[NoClient EXCEPT !.depth = d] : d \in ClientDepths}

SpecClient == InitClient /\ [][NextClient]_vars

-----------------------------------------------------------------------------
(* A signed payload that is changed on its way to the verifier *)

AuthorizationFields == {"from", "to", "value", "validAfter", "validBefore", "nonce"}
Nonces == {"n1", "n2"}
\* What a field of the authorization can be replaced by.
FieldValues(e, field) ==
    CASE field = "from" -> PayerAddresses \cup {Addr("mallory", "checksum")}
      [] field = "to" -> RecipientAddresses(e)
      [] field = "value" -> ValueFields(e)
      [] field \in {"validAfter", "validBefore"} -> TimeFields
      [] field = "nonce" -> Nonces

\* vIn is a payload for the server's network whose authorization the payer signed
\* over the server's domain.
IsSignedPayload(e, payload) ==
    \E from \in PayerAddresses, value \in {v \in ValueFields(e) : v.kind = "int"},
       to \in {e.requirements.payTo, toLowerCase(e.requirements.payTo), Addr("somebody", "checksum")},
       validAfter \in {Num(t) : t \in Times}, validBefore \in {Num(t) : t \in Times},
       nonce \in Nonces :
        LET a == Authorization(from, to, value, validAfter, validBefore, nonce)
        IN payload = PaymentPayload(e.requirements.network, "", TRUE, a,
                        signTypedData(from.id, buildEip712Domain(e, e.requirements), a))

NoTamper == [tampered |-> FALSE, field |-> "", payload |-> NoPayload,
             done |-> FALSE, result |-> NoVerify]

\* One field of the authorization is replaced; the signature stays.
Tamper ==
    /\ ~vOut.tampered
    /\ \E field \in AuthorizationFields :
         \E v \in FieldValues(exec, field) \ {vIn.authorization[field]} :
            vOut' = [vOut EXCEPT !.tampered = TRUE, !.field = field,
                                 !.payload = [vIn EXCEPT !.authorization[field] = v]]
    /\ UNCHANGED <<exec, now, usedNonces, reqs, vIn>>

VerifyTampered ==
    /\ vOut.tampered /\ ~vOut.done
    /\ vOut' = [vOut EXCEPT !.done = TRUE,
                            !.result = verifyPaymentLocally(exec, vOut.payload,
                                                            exec.requirements, now)]
    /\ UNCHANGED <<exec, now, usedNonces, reqs, vIn>>

NextTamper == Tamper \/ VerifyTampered

InitTamper ==
    /\ exec \in {initialize(MerchantExecutor(o)) : o \in ServerOptions}
    /\ exec.ok /\ exec.mode = "direct"
    /\ now \in Times
    /\ usedNonces = {}
    /\ reqs = [r \in Reqs |-> NewRequest]
    /\ IsSignedPayload(exec, vIn)
    /\ vOut = NoTamper

SpecTamper == InitTamper /\ [][NextTamper]_vars

-----------------------------------------------------------------------------
(* One request to analyze-paid, by what its header and its body bring *)

PayloadRequest == 1

\* The handler reads the header and the body of the request.
ReceiveFrom ==
    /\ reqs[PayloadRequest].pc = "new"
    /\ reqs' = [reqs EXCEPT ![PayloadRequest] =
                  analyzePaidReceive(exec, @, vIn.header, vIn.body)]
    /\ UNCHANGED <<exec, now, usedNonces, vIn, vOut>>

NextSource ==
    \/ ReceiveFrom
    \/ Verify(PayloadRequest)
    \/ Service(PayloadRequest)
    \/ SettleSubmit(PayloadRequest)
    \/ SettleReceipt(PayloadRequest)
    \/ SettleDelegated(PayloadRequest)

InitSource ==
    /\ exec \in {initialize(MerchantExecutor(o)) : o \in ServerOptions}
    /\ exec.ok
    /\ now = 1
    /\ usedNonces = {}
    /\ reqs = [r \in Reqs |-> NewRequest]
    /\ \E header \in Headers(FlowPayloads(exec, now)), body \in Bodies(FlowPayloads(exec, now)) :
         vIn = [header |-> header, body |-> body]
    /\ vOut = NoOutput

SpecSource == InitSource /\ [][NextSource]_vars

-----------------------------------------------------------------------------
(* One payload before two executors whose configuration of the token differs *)

\* Direct-mode configurations of one server that differ in ASSET_ADDRESS, ASSET_NAME
\* and CHAIN_ID only.
TokenOptions ==
    LET o == CHOOSE x \in ServerOptions : x.settlementMode = "direct"
    IN {[o EXCEPT !.assetAddress = a, !.assetName = n, !.chainId = c] :
          a \in {"", "token"}, n \in {"", "Token"}, c \in {0, 84532}}

NoPair == [firstDone |-> FALSE, first |-> NoVerify, secondDone |-> FALSE, second |-> NoVerify]

\* verifyPayment of the first executor, which runs verifyPaymentLocally with that
\* executor's requirements.
VerifyFirst ==
    /\ ~vOut.firstDone
    /\ vOut' = [vOut EXCEPT !.firstDone = TRUE,
                            !.first = verifyPaymentLocally(exec, vIn.payload, exec.requirements, now)]
    /\ UNCHANGED <<exec, now, usedNonces, reqs, vIn>>

\* The same call on the second executor, at the same time.
VerifySecond ==
    /\ ~vOut.secondDone
    /\ vOut' = [vOut EXCEPT !.secondDone = TRUE,
                            !.second = verifyPaymentLocally(vIn.other, vIn.payload,
                                                            vIn.other.requirements, now)]
    /\ UNCHANGED <<exec, now, usedNonces, reqs, vIn>>

NextPair == VerifyFirst \/ VerifySecond

\* The payload is the one the test client signs for the challenge of one of the two.
InitPair ==
    /\ exec \in {MerchantExecutor(o) : o \in TokenOptions}
    /\ exec.ok
    /\ now \in Times
    /\ usedNonces = {}
    /\ reqs = [r \in Reqs |-> NewRequest]
    /\ \E other \in {MerchantExecutor(o) : o \in TokenOptions}, nonce \in Nonces :
         /\ other.ok /\ other # exec
         /\ \E issuer \in {exec, other} :
              vIn = [other |-> other,
                     payload |-> createPaymentPayloadEvm(createPaymentRequiredResponse(issuer),
                                                         "payer", nonce, now)]
    /\ vOut = NoPair

SpecPair == InitPair /\ [][NextPair]_vars

-----------------------------------------------------------------------------
(* The facilitator process: startup, POST /verify and POST /settle *)

\* The chains the facilitator knows by name, and their CAIP-2 identifiers.
VIEM_CHAINS ==
    {"base", "base-sepolia", "polygon", "polygon-amoy", "avalanche", "avalanche-fuji",
     "iotex", "sei", "sei-testnet"}
NETWORK_TO_CAIP2 ==
    [n \in VIEM_CHAINS |->
        CASE n = "base" -> "eip155:8453"
          [] n = "base-sepolia" -> "eip155:84532"
          [] n = "polygon" -> "eip155:137"
          [] n = "polygon-amoy" -> "eip155:80002"
          [] n = "avalanche" -> "eip155:43114"
          [] n = "avalanche-fuji" -> "eip155:43113"
          [] n = "iotex" -> "eip155:4689"
          [] n = "sei" -> "eip155:1329"
          [] n = "sei-testnet" -> "eip155:1328"]
startsWithEip155(network) == isCaip2(network) /\ network # "solana:devnet"

FacilitatorEnvironments ==
    [EVM_PRIVATE_KEY : {"", "key"},
     FACILITATOR_EVM_NETWORK : {"", "avalanche-fuji", "base", "peaq", "eip155:43113",
                                "eip155:3338", "eip155:fuji", "solana:devnet", "unknown-net"},
     FACILITATOR_EVM_RPC_URL : {"", "rpc"}]
EvmNetworkOf(env) ==
    IF env.FACILITATOR_EVM_NETWORK # "" THEN env.FACILITATOR_EVM_NETWORK ELSE "avalanche-fuji"

\* The name of the viem chain for EVM_NETWORK, "" when there is none.
resolveViemChain(network) ==
    IF network \in VIEM_CHAINS THEN network
    ELSE IF startsWithEip155(network) /\ \E k \in VIEM_CHAINS : NETWORK_TO_CAIP2[k] = network
    THEN CHOOSE k \in VIEM_CHAINS : NETWORK_TO_CAIP2[k] = network
    ELSE ""

getEvmCaip2Network(network) ==
    IF startsWithEip155(network) THEN network
    ELSE IF network \in VIEM_CHAINS THEN NETWORK_TO_CAIP2[network]
    ELSE "throw"

Facilitator(phase, chain, caip2, rpcUrl) ==
    [phase |-> phase, chain |-> chain, caip2 |-> caip2, rpcUrl |-> rpcUrl]

\* Mutant: the chain is looked up when a request needs it.
startFacilitator_lazyChain(env) ==
    IF env.EVM_PRIVATE_KEY = "" THEN Facilitator("exited", "", "", "")
    ELSE Facilitator("listening", resolveViemChain(EvmNetworkOf(env)),
                     getEvmCaip2Network(EvmNetworkOf(env)),
                     IF env.FACILITATOR_EVM_RPC_URL # "" THEN env.FACILITATOR_EVM_RPC_URL
                     ELSE "https://api.avax-test.network/ext/bc/C/rpc")

\* startFacilitator up to app.listen: process.exit(1) without key, without a viem
\* chain or without a CAIP-2 identifier.
startFacilitator(env) ==
    LET network == EvmNetworkOf(env)
        rpcUrl == IF env.FACILITATOR_EVM_RPC_URL # "" THEN env.FACILITATOR_EVM_RPC_URL
                  ELSE "https://api.avax-test.network/ext/bc/C/rpc"
    IN IF env.EVM_PRIVATE_KEY = "" THEN Facilitator("exited", "", "", "")
       ELSE IF resolveViemChain(network) = "" THEN Facilitator("exited", "", "", "")
       ELSE IF getEvmCaip2Network(network) = "throw" THEN Facilitator("exited", "", "", "")
       ELSE Facilitator("listening", resolveViemChain(network), getEvmCaip2Network(network),
                        rpcUrl)

\* What the registered hooks can do when they run: all return, or one of them throws
\* (their bodies have no try/catch).
HookFaults == {"none", "before throws", "after throws", "failure throws"}
HookError == Err(Text({"hook failed"}), "none")

\* The outcomes of the scheme's own verify and settle, without any hook.
UnderlyingVerify ==
    {Returned(Valid(Addr("payer", "checksum"))),
     Returned(Invalid(Reason("invalid_exact_evm_payload_signature"), FALSE)),
     Threw(Err(Text({"fetch failed"}), "none"))}
UnderlyingSettle(caip2) ==
    {Returned(SettlementResult(TRUE, "0xtx", caip2, Addr("payer", "checksum"), NoReason, "none")),
     Returned(SettlementResult(FALSE, "", caip2, Addr("payer", "checksum"),
                               Reason("invalid_transaction_state"), "other")),
     Threw(Err(Text({"execution reverted"}), "none"))}

\* What the awaited facilitator.verify / facilitator.settle can give the handler.
\* The hooks run inside that call; x402Facilitator either contains a hook that
\* throws or lets its error out to the handler, as the handler's catch expects of
\* an abort from a hook.
facilitatorCall(underlying, fault) ==
    CASE fault = "none" -> {underlying}
      [] fault = "before throws" -> {underlying, Threw(HookError)}
      [] fault = "after throws" ->
            IF underlying.threw THEN {underlying} ELSE {underlying, Threw(HookError)}
      [] fault = "failure throws" ->
            IF underlying.threw THEN {underlying, Threw(HookError)} ELSE {underlying}

\* A response not yet written. called records that the handler reached
\* facilitator.verify or facilitator.settle.
NoResponse ==
    [status |-> 0, verify |-> NoVerify, settle |-> NoSettlement, error |-> NoParsed,
     called |-> FALSE]
NoOutcome == Threw(Err(NoReason, "none"))
\* One request to /verify or /settle: the body it brought, what the hooks did, what
\* the scheme gave and what came out of the awaited call, the response, and the
\* result verifyPayment or settlePayment makes of that response.
NoCall(result) ==
    [done |-> FALSE, presentBody |-> FALSE, fault |-> "none", underlying |-> NoOutcome,
     outcome |-> NoOutcome, response |-> NoResponse, result |-> result]

\* Mutant: facilitator.verify is awaited before the body is looked at.
postVerify_callsFirst(presentBody, outcome) ==
    IF outcome.threw
    THEN [NoResponse EXCEPT !.status = 500, !.called = TRUE,
            !.error = facilitatorParsePaymentError(outcome.error)]
    ELSE IF ~presentBody
    THEN [NoResponse EXCEPT !.status = 400, !.called = TRUE,
            !.error = Parsed("", Text({"Missing paymentPayload or paymentRequirements"}), "")]
    ELSE [NoResponse EXCEPT !.status = 200, !.called = TRUE, !.verify = outcome.value]

\* POST /verify for a body that holds payload and requirements (presentBody) or not.
postVerify(presentBody, outcome) ==
    IF ~presentBody
    THEN [NoResponse EXCEPT !.status = 400,
            !.error = Parsed("", Text({"Missing paymentPayload or paymentRequirements"}), "")]
    ELSE IF outcome.threw
    THEN [NoResponse EXCEPT !.status = 500, !.called = TRUE,
            !.error = facilitatorParsePaymentError(outcome.error)]
    ELSE [NoResponse EXCEPT !.status = 200, !.called = TRUE, !.verify = outcome.value]

\* POST /settle; the catch answers an abort with a failed SettleResponse.
postSettle(presentBody, outcome, network) ==
    IF ~presentBody
    THEN [NoResponse EXCEPT !.status = 400,
            !.error = Parsed("", Text({"Missing paymentPayload or paymentRequirements"}), "")]
    ELSE IF outcome.threw /\ includes(outcome.error.message, "Settlement aborted:")
    THEN [NoResponse EXCEPT !.status = 200, !.called = TRUE,
            !.settle = SettlementResult(FALSE, "", network, NoAddr,
                           outcome.error.message \ {"Settlement aborted:"}, "other")]
    ELSE IF outcome.threw
    THEN [NoResponse EXCEPT !.status = 500, !.called = TRUE,
            !.error = facilitatorParsePaymentError(outcome.error)]
    ELSE [NoResponse EXCEPT !.status = 200, !.called = TRUE, !.settle = outcome.value]

\* callFacilitator on the response of the facilitator: a status that is not OK is
\* thrown as an error quoting the endpoint and the body, otherwise the JSON body is
\* the result.
callFacilitator(endpoint, response) ==
    IF response.status \notin 200..299
    THEN Threw(Err(Text({"Facilitator " \o endpoint \o " failed"}
                        \cup response.error.message
                        \cup ({response.error.code, response.error.suggestion} \ {""})),
               "none"))
    ELSE Returned(IF endpoint = "verify" THEN response.verify ELSE response.settle)

\* verifyPayment and settlePayment of an executor that delegates to this facilitator.
delegatedVerify(response) ==
    LET reply == callFacilitator("verify", response)
    IN IF reply.threw THEN verifyPaymentCatch(reply.error) ELSE reply.value
delegatedSettle(e, response) ==
    LET reply == callFacilitator("settle", response)
    IN IF reply.threw THEN settlePaymentCatch(e, reply.error, "other") ELSE reply.value

NoFacilitator ==
    [server |-> Facilitator("configured", "", "", ""), verify |-> NoCall(NoVerify),
     settle |-> NoCall(NoSettlement)]

StartFacilitator ==
    /\ vOut.server.phase = "configured"
    /\ vOut' = [vOut EXCEPT !.server = startFacilitator(vIn)]
    /\ UNCHANGED <<exec, now, usedNonces, reqs, vIn>>

PostVerify ==
    /\ vOut.server.phase = "listening"
    /\ ~vOut.verify.done
    /\ \E presentBody \in BOOLEAN, underlying \in UnderlyingVerify,
          fault \in HookFaults :
         \E outcome \in facilitatorCall(underlying, fault) :
            LET response == postVerify(presentBody, outcome)
            IN vOut' = [vOut EXCEPT !.verify =
                         [done |-> TRUE, presentBody |-> presentBody,
                          fault |-> IF response.called THEN fault ELSE "none",
                          underlying |-> underlying,
                          outcome |-> IF response.called THEN outcome ELSE NoOutcome,
                          response |-> response,
                          result |-> delegatedVerify(response)]]
    /\ UNCHANGED <<exec, now, usedNonces, reqs, vIn>>

PostSettle ==
    /\ vOut.server.phase = "listening"
    /\ ~vOut.settle.done
    /\ \E presentBody \in BOOLEAN, underlying \in UnderlyingSettle(vOut.server.caip2),
          fault \in HookFaults :
         \E outcome \in facilitatorCall(underlying, fault) :
            LET response == postSettle(presentBody, outcome, vOut.server.caip2)
            IN vOut' = [vOut EXCEPT !.settle =
                         [done |-> TRUE, presentBody |-> presentBody,
                          fault |-> IF response.called THEN fault ELSE "none",
                          underlying |-> underlying,
                          outcome |-> IF response.called THEN outcome ELSE NoOutcome,
                          response |-> response,
                          result |-> delegatedSettle(exec, response)]]
    /\ UNCHANGED <<exec, now, usedNonces, reqs, vIn>>

NextFacilitator == StartFacilitator \/ PostVerify \/ PostSettle

InitFacilitator ==
    /\ vIn \in FacilitatorEnvironments
    /\ exec \in {initialize(MerchantExecutor(o)) :
                    o \in {c \in ServerOptions : c.settlementMode = "facilitator"}}
    /\ now = 1
    /\ usedNonces = {}
    /\ reqs = [r \in Reqs |-> NewRequest]
    /\ vOut = NoFacilitator

SpecFacilitator == InitFacilitator /\ [][NextFacilitator]_vars

-----------------------------------------------------------------------------
(* Each legacy network name through the executor and through the facilitator *)

\* The server's options for a network, without asset or chain id override.
NetworkOptions ==
    {[o EXCEPT !.network = n] : o \in ServerOptions, n \in LegacyNetworks}

NoTables ==
    [constructed |-> FALSE, domainBuilt |-> FALSE, domain |-> NoDomain,
     facilitator |-> Facilitator("configured", "", "", "")]

ConstructFor ==
    /\ ~vOut.constructed
    /\ exec' = initialize(MerchantExecutor(vIn.options))
    /\ vOut' = [vOut EXCEPT !.constructed = TRUE]
    /\ UNCHANGED <<now, usedNonces, reqs, vIn>>

\* The domain local verification builds for the executor's requirement.
BuildDomain ==
    /\ vOut.constructed /\ exec.ok /\ exec.mode = "direct" /\ ~vOut.domainBuilt
    /\ vOut' = [vOut EXCEPT !.domainBuilt = TRUE,
                            !.domain = buildEip712Domain(exec, exec.requirements)]
    /\ UNCHANGED <<exec, now, usedNonces, reqs, vIn>>

\* A facilitator is started for the same network, given by its name or by the
\* identifier the executor's table has for it.
StartFacilitatorFor ==
    /\ vOut.facilitator.phase = "configured"
    /\ vOut' = [vOut EXCEPT !.facilitator =
                    startFacilitator([EVM_PRIVATE_KEY |-> "key",
                                      FACILITATOR_EVM_NETWORK |-> vIn.facilitatorNetwork,
                                      FACILITATOR_EVM_RPC_URL |-> ""])]
    /\ UNCHANGED <<exec, now, usedNonces, reqs, vIn>>

NextTables == ConstructFor \/ BuildDomain \/ StartFacilitatorFor

InitTables ==
    /\ \E o \in NetworkOptions :
         \E network \in {o.network, NETWORK_MAP[o.network]} :
            vIn = [options |-> o, facilitatorNetwork |-> network]
    /\ exec = Unconstructed
    /\ now = 1
    /\ usedNonces = {}
    /\ reqs = [r \in Reqs |-> NewRequest]
    /\ vOut = NoTables

SpecTables == InitTables /\ [][NextTables]_vars

-----------------------------------------------------------------------------
(* Properties of the verifier, stated on the payload and the requirement *)

\* What the payload and the requirement say, read off the fields alone.
AuthorizationMissing == ~vIn.hasAuth \/ vIn.signature.kind = "missing"
NetworkDiffers ==
    (IF vIn.accepted # "" THEN vIn.accepted ELSE vIn.network) # exec.requirements.network
RecipientDiffers == vIn.authorization.to.id # exec.requirements.payTo.id
ValueUnreadable == vIn.authorization.value.kind # "int"
ValueTooSmall ==
    /\ vIn.authorization.value.kind = "int"
    /\ vIn.authorization.value.n < exec.requirements.amount.n
\* A timing field as a number: absent counts as 0.
TimeOf(field) == IF field.kind = "int" THEN field.n ELSE 0
TimingUnreadable ==
    vIn.authorization.validAfter.kind = "nan" \/ vIn.authorization.validBefore.kind = "nan"
NotYetValid == ~TimingUnreadable /\ TimeOf(vIn.authorization.validAfter) > now
Expired == ~TimingUnreadable /\ TimeOf(vIn.authorization.validBefore) <= now
StrictlyInsideWindow ==
    /\ ~TimingUnreadable
    /\ TimeOf(vIn.authorization.validAfter) < now
    /\ now < TimeOf(vIn.authorization.validBefore)
\* The signature is the payer's own over this authorization and the server's domain.
SignedByPayer ==
    vIn.signature = signTypedData(vIn.authorization.from.id,
                                  buildEip712Domain(exec, exec.requirements), vIn.authorization)

AmountReasons ==
    {Reason("Invalid payment amount provided"),
     Reason("Authorized amount is less than required amount")}
TimingReasons ==
    {Reason("Invalid authorization timing fields"), Reason("Authorization not yet valid"),
     Reason("Authorization expired")}
SignatureReasons ==
    {Reason("Signature verification failed"), Reason("Signature does not match payer address")}

ChecksOneToThreePass == ~AuthorizationMissing /\ ~NetworkDiffers /\ ~RecipientDiffers
ChecksOneToFourPass == ChecksOneToThreePass /\ ~ValueUnreadable /\ ~ValueTooSmall

\* C6: the checks run in the order presence, network, recipient, amount, window,
\* signature; the first one that fails decides the reason, and no signature is
\* recovered unless the five before it passed (in particular not on a network
\* mismatch). A recipient that is not a string makes the recipient check itself
\* fail by exception, with nothing after it evaluated.
C6_OrderedChecks ==
    vOut.done =>
        LET res == vOut.result IN
        /\ AuthorizationMissing =>
              /\ ~res.isValid /\ ~res.recoveryAttempted
              /\ res.invalidReason = Reason("Missing payment authorization data")
        /\ (~AuthorizationMissing /\ NetworkDiffers) =>
              /\ ~res.isValid /\ ~res.recoveryAttempted
              /\ res.invalidReason = Reason("Network mismatch")
        /\ (~AuthorizationMissing /\ ~NetworkDiffers /\ RecipientDiffers) =>
              /\ ~res.isValid /\ ~res.recoveryAttempted
              /\ IF vIn.authorization.to = NumberAsAddr
                 THEN res.exception = "thrown"
                 ELSE res.invalidReason = Reason("Authorization recipient does not match requirement")
        /\ (ChecksOneToThreePass /\ (ValueUnreadable \/ ValueTooSmall)) =>
              /\ ~res.isValid /\ ~res.recoveryAttempted
              /\ res.invalidReason \in AmountReasons
        /\ (ChecksOneToFourPass /\ (TimingUnreadable \/ NotYetValid \/ Expired)) =>
              /\ ~res.isValid /\ ~res.recoveryAttempted
              /\ res.invalidReason \in TimingReasons
        /\ (ChecksOneToFourPass /\ StrictlyInsideWindow) =>
              /\ res.recoveryAttempted
              /\ res.isValid \/ res.invalidReason \in SignatureReasons

\* A payload wrong in its network, its recipient, its amount, its window and its
\* signature at once is refused for its network.
C6_Witness ==
    /\ vOut.done
    /\ ~AuthorizationMissing /\ NetworkDiffers /\ RecipientDiffers /\ ValueTooSmall /\ Expired
    /\ vIn.signature.signer = "mallory"
    /\ vOut.result.invalidReason = Reason("Network mismatch")
    /\ ~vOut.result.recoveryAttempted

\* C7: an authorization whose validBefore is not after the current time is never
\* valid, whatever its signature: no signature is recovered for it, and once the
\* presence, network, recipient and amount checks have passed the reason is a
\* timing reason ("Authorization expired" when validAfter is already past).
C7_ExpiredRejected ==
    (vOut.done /\ vIn.hasAuth /\ vIn.authorization.validBefore.kind = "int"
              /\ vIn.authorization.validBefore.n <= now) =>
        LET res == vOut.result IN
        /\ ~res.isValid
        /\ ~res.recoveryAttempted
        /\ res.invalidReason \notin SignatureReasons
        /\ ChecksOneToFourPass => res.invalidReason \in TimingReasons
        /\ (ChecksOneToFourPass /\ ~TimingUnreadable /\ ~NotYetValid) =>
              res.invalidReason = Reason("Authorization expired")

\* A correctly signed payment, right in everything but its expiry, is refused as expired.
C7_Witness ==
    /\ vOut.done
    /\ ChecksOneToFourPass /\ SignedByPayer
    /\ vIn.authorization.validAfter = Num(0)
    /\ vIn.authorization.validBefore = Num(now)
    /\ vOut.result.invalidReason = Reason("Authorization expired")

\* C8: the window is strict on both sides: the timing check passes only when
\* validAfter < now < validBefore, now = validAfter is refused as not yet valid and
\* now = validBefore as expired.
C8_StrictWindow ==
    (vOut.done /\ ChecksOneToFourPass /\ ~TimingUnreadable) =>
        LET res == vOut.result IN
        /\ TimeOf(vIn.authorization.validAfter) >= now =>
              res.invalidReason = Reason("Authorization not yet valid")
        /\ (TimeOf(vIn.authorization.validAfter) < now
              /\ TimeOf(vIn.authorization.validBefore) <= now) =>
              res.invalidReason = Reason("Authorization expired")
        /\ res.invalidReason \notin TimingReasons => StrictlyInsideWindow

\* C9: an authorized value below the required amount is never valid and, once the
\* presence, network and recipient checks have passed, is refused for its amount;
\* a value equal to the required amount passes the amount check.
C9_AmountComparison ==
    (vOut.done /\ vIn.hasAuth /\ vIn.authorization.value.kind = "int") =>
        LET res == vOut.result IN
        /\ ValueTooSmall =>
              /\ ~res.isValid /\ ~res.recoveryAttempted
              /\ res.invalidReason \notin (TimingReasons \cup SignatureReasons)
              /\ ChecksOneToThreePass =>
                    res.invalidReason = Reason("Authorized amount is less than required amount")
        /\ vIn.authorization.value = exec.requirements.amount =>
              res.invalidReason \notin AmountReasons

\* A correctly signed payment of one unit less than the price is refused for its amount.
C9_Witness ==
    /\ vOut.done
    /\ ChecksOneToThreePass /\ StrictlyInsideWindow /\ SignedByPayer
    /\ vIn.authorization.value.n = exec.requirements.amount.n - 1
    /\ vOut.result.invalidReason = Reason("Authorized amount is less than required amount")

\* C10: a payload found valid names the requirement's network, pays the
\* requirement's recipient (compared without case) at least the required amount,
\* is inside a window with validAfter <= now < validBefore, and the payer returned
\* is the signer recovered from the signature over the server's domain and this
\* authorization, equal to authorization.from without regard to case.
C10_ValidIsSound ==
    (vOut.done /\ vOut.result.isValid) =>
        LET a == vIn.authorization
            res == vOut.result
        IN /\ ~AuthorizationMissing
           /\ ~NetworkDiffers
           /\ toLowerCase(a.to) = toLowerCase(exec.requirements.payTo)
           /\ a.value.kind = "int" /\ a.value.n >= exec.requirements.amount.n
           /\ a.validAfter.kind = "int" /\ a.validBefore.kind = "int"
           /\ a.validAfter.n <= now /\ now < a.validBefore.n
           /\ vIn.signature.kind = "ok"
           /\ vIn.signature.domain = buildEip712Domain(exec, exec.requirements)
           /\ vIn.signature.msg = TypedMessage(a)
           /\ res.payer = Addr(vIn.signature.signer, "checksum")
           /\ toLowerCase(res.payer) = toLowerCase(a.from)
           /\ res.invalidReason = NoReason

\* A valid payment whose from and to are written in lower case.
C10_Witness ==
    /\ vOut.done /\ vOut.result.isValid
    /\ vIn.authorization.from = Addr("payer", "lower")
    /\ vIn.authorization.to = toLowerCase(exec.requirements.payTo)
    /\ vIn.authorization.to # exec.requirements.payTo
    /\ vOut.result.payer = Addr("payer", "checksum")

C12_VerifyNeverThrows ==
    vOut.publicDone =>
        LET res == vOut.publicResult IN
        /\ res.exception # "thrown"
        /\ res.exception = "caught" => (~res.isValid /\ res.invalidReason # NoReason)
        /\ (vOut.done /\ vOut.result.exception = "thrown") =>
              /\ res.exception = "caught"
              /\ res.invalidReason = vOut.result.invalidReason

\* A payload whose recipient is a number made local verification throw, and
\* verifyPayment returned the failure.
C12_Witness ==
    /\ vOut.publicDone
    /\ vIn.authorization.to = NumberAsAddr
    /\ vOut.result.exception = "thrown"
    /\ ~vOut.publicResult.isValid
    /\ vOut.publicResult.invalidReason =
          Text({"authorization.to?.toLowerCase is not a function"})

-----------------------------------------------------------------------------
(* Properties of the paid endpoints *)

\* Request r has got as far as settlePayment.
SettlementStarted(r) ==
    \/ reqs[r].pc \in {"settle", "wait"}
    \/ reqs[r].settleCalls > 0 \/ reqs[r].broadcasts > 0 \/ reqs[r].facilitatorSettles > 0
    \/ reqs[r].settlement # NoSettlement
SettlementReturned(r) == reqs[r].settlement # NoSettlement

\* C1: settlePayment is called for a request only after verifyPayment returned
\* isValid = true for the payload of that request; a request without a payload or
\* with an invalid one causes no broadcast and no call of the facilitator's /settle.
C1_SettleOnlyAfterValidVerify ==
    \A r \in Reqs :
        /\ SettlementStarted(r) =>
              /\ reqs[r].hasPayload
              /\ reqs[r].verifyDone
              /\ reqs[r].verify.isValid
        /\ (reqs[r].pc = "done" /\ (~reqs[r].hasPayload \/ ~reqs[r].verify.isValid)) =>
              /\ reqs[r].settleCalls = 0
              /\ reqs[r].broadcasts = 0
              /\ reqs[r].facilitatorSettles = 0

\* One request was settled after a valid verification while another, whose payload
\* was found invalid, was answered without any settlement.
C1_Witness ==
    \E r1, r2 \in Reqs :
        /\ reqs[r1].pc = "done" /\ reqs[r1].verify.isValid /\ reqs[r1].settlement.success
        /\ reqs[r2].pc = "done" /\ reqs[r2].hasPayload /\ reqs[r2].verifyDone
        /\ ~reqs[r2].verify.isValid /\ reqs[r2].settleCalls = 0

\* C2: the analysis runs only after the settlement of the request succeeded.
C2_AnalyzeAfterSettlement ==
    \A r \in Reqs : reqs[r].analyzed => reqs[r].settlement.success

\* C3: in direct mode at most one settlement is between the submission of its
\* transaction and its receipt.
C3_OneSettlementInFlight ==
    exec.mode = "direct" => Cardinality({r \in Reqs : reqs[r].pc = "wait"}) <= 1

\* C4: of the settlements of one authorization (same payer and nonce) at most one
\* succeeds, and a success consumes the nonce on the chain.
C4_AtMostOneSuccess ==
    /\ \A r1, r2 \in Reqs :
          (r1 # r2 /\ reqs[r1].settlement.success /\ reqs[r2].settlement.success) =>
              NonceOf(reqs[r1].payload) # NonceOf(reqs[r2].payload)
    /\ \A r \in Reqs :
          reqs[r].settlement.success => NonceOf(reqs[r].payload) \in usedNonces

\* Two requests carried the same authorization: one settled, the other was refused
\* by the chain for its nonce.
C4_Witness ==
    \E r1, r2 \in Reqs :
        /\ r1 # r2
        /\ reqs[r1].payload = reqs[r2].payload
        /\ reqs[r1].settlement.success
        /\ SettlementReturned(r2) /\ ~reqs[r2].settlement.success
        /\ reqs[r2].settlement.cause = "nonce"

\* The kind the classifier gives to the failure a settlement reports.
ReportedKind(settlement) == parsePaymentError(Err(settlement.errorReason, "none")).code

\* C5 as stated: a settlement the chain refused for its nonce is reported as a nonce
\* conflict or as unknown, and as nothing else.
C5_NonceOrUnknownOnly ==
    \A r \in Reqs :
        reqs[r].settlement.cause = "nonce" =>
            /\ ~reqs[r].settlement.success
            /\ ReportedKind(reqs[r].settlement) \in {"NONCE_ISSUE", "UNKNOWN_ERROR"}

\* C5: a settlement the chain refused for its nonce is reported with success = false
\* and as a reverted transaction, a nonce conflict or unknown; never as a success
\* and never as a shortage of gas or of funds.
C5_NonceRejectionKinds ==
    \A r \in Reqs :
        reqs[r].settlement.cause = "nonce" =>
            /\ ~reqs[r].settlement.success
            /\ ReportedKind(reqs[r].settlement)
                  \in {"TRANSACTION_REVERTED", "NONCE_ISSUE", "UNKNOWN_ERROR"}

\* A repeated authorization was refused at submission with the contract's revert.
C5_Witness ==
    \E r \in Reqs :
        /\ reqs[r].settlement.cause = "nonce"
        /\ reqs[r].settlement.errorReason = RevertText
        /\ ReportedKind(reqs[r].settlement) = "TRANSACTION_REVERTED"

\* C13: settlePayment never ends by throwing: in both modes and whatever the chain or
\* the facilitator does, it returns a result with a boolean success and the
\* executor's network, and every failure has success = false and an errorReason; the
\* handler therefore answers a request that reached settlement with status 200.
C13_SettleNeverThrows ==
    \A r \in Reqs :
        SettlementReturned(r) =>
            LET res == reqs[r].settlement IN
            /\ ~res.threw
            /\ res.success \in BOOLEAN
            /\ res.network = exec.network
            /\ ~res.success => res.errorReason # NoReason
            /\ res.success => res.cause = "none"
            /\ reqs[r].status = 200

\* In one run a settlement failed for a reason of transport and was reported, and
\* another was refused by the chain and reported.
C13_Witness ==
    \E r1, r2 \in Reqs :
        /\ SettlementReturned(r1) /\ reqs[r1].settlement.cause = "transport"
        /\ ~reqs[r1].settlement.success /\ reqs[r1].status = 200
        /\ SettlementReturned(r2) /\ reqs[r2].settlement.cause \in {"nonce", "other"}
        /\ ~reqs[r2].settlement.success /\ reqs[r2].status = 200

\* C14: direct settlement takes success from the receipt: status 1 gives success =
\* true with a transaction id and no errorReason, status 0 gives success = false with
\* errorReason "Transaction reverted" and the transaction id still reported; without
\* a receipt of status 1 there is no success.
C14_ReceiptDecides ==
    \A r \in Reqs :
        LET res == reqs[r].settlement IN
        /\ reqs[r].receiptStatus = 1 =>
              /\ res.success /\ res.transaction # "" /\ res.errorReason = NoReason
        /\ reqs[r].receiptStatus = 0 =>
              /\ ~res.success /\ res.transaction # ""
              /\ res.errorReason = Reason("Transaction reverted")
        /\ (exec.mode = "direct" /\ res.success) => reqs[r].receiptStatus = 1

\* One transaction was mined with status 1 and another with status 0, and both
\* results carry their transaction id.
C14_Witness ==
    \E r1, r2 \in Reqs :
        /\ reqs[r1].receiptStatus = 1 /\ reqs[r1].settlement.success
        /\ reqs[r2].receiptStatus = 0 /\ ~reqs[r2].settlement.success
        /\ reqs[r2].settlement.transaction = "0xtx"

\* C15: settlement is never retried: a request calls settlePayment at most once, and
\* that call makes at most one broadcast (direct mode) or one /settle request
\* (facilitator mode), also when it fails.
C15_NoRetry ==
    \A r \in Reqs :
        /\ reqs[r].settleCalls <= 1
        /\ reqs[r].broadcasts + reqs[r].facilitatorSettles <= reqs[r].settleCalls
        /\ reqs[r].pc \in {"settle", "wait"} => ~SettlementReturned(r)

\* A settlement failed after its broadcast, another failed at the facilitator or
\* before any broadcast, and each request was answered after its single attempt.
C15_Witness ==
    \E r1, r2 \in Reqs :
        /\ r1 # r2
        /\ reqs[r1].pc = "done" /\ SettlementReturned(r1) /\ ~reqs[r1].settlement.success
        /\ reqs[r1].settleCalls = 1
        /\ reqs[r1].broadcasts + reqs[r1].facilitatorSettles = 1
        /\ reqs[r2].pc = "done" /\ SettlementReturned(r2) /\ ~reqs[r2].settlement.success
        /\ reqs[r2].settleCalls = 1

\* What verifyPayment returns for request r under each strategy.
LocalVerdict(r) ==
    LET local == verifyPaymentLocally(exec, reqs[r].payload, exec.requirements, now)
    IN IF local.exception = "thrown"
       THEN verifyPaymentCatch(Err(local.invalidReason, "none"))
       ELSE local
DelegatedVerdicts(r) ==
    IF exec.facilitatorUrl = ""
    THEN {verifyPaymentCatch(Err(Text({"Facilitator URL is not configured."}), "none"))}
    ELSE {IF reply.threw THEN verifyPaymentCatch(reply.error) ELSE reply.value :
            reply \in FacilitatorVerifyReplies(reqs[r].payload)}
StrategyFollowed ==
    \A r \in Reqs :
        /\ exec.mode \in {"direct", "facilitator"}
        /\ exec.mode = "direct" =>
              /\ reqs[r].facilitatorSettles = 0
              /\ reqs[r].verifyDone => reqs[r].verify = LocalVerdict(r)
        /\ exec.mode = "facilitator" =>
              /\ reqs[r].broadcasts = 0 /\ reqs[r].pc # "wait"
              /\ reqs[r].receiptStatus = NoReceipt
              /\ reqs[r].verifyDone => reqs[r].verify \in DelegatedVerdicts(r)

\* C16: the executor, and with it the settlement mode, never changes after
\* construction, and every verification and settlement of every request goes the way
\* of that mode: in direct mode local verification and no /settle request, in
\* facilitator mode the facilitator's verdict and no broadcast.
C16_ModeFixed == [][exec' = exec]_vars /\ []StrategyFollowed

\* In direct mode a request to each endpoint, with different payloads, was settled
\* by a broadcast.
C16_Witness ==
    \E r1, r2 \in Reqs :
        /\ exec.mode = "direct"
        /\ reqs[r1].endpoint = "analyze-paid" /\ reqs[r2].endpoint = "process"
        /\ reqs[r1].payload # reqs[r2].payload
        /\ reqs[r1].broadcasts = 1 /\ reqs[r2].broadcasts = 1

-----------------------------------------------------------------------------
(* Properties of the classifier *)

\* C17: the same failure text is reported alike by both strategies: the errorReason
\* of a failed direct broadcast equals the errorReason of a delegated settlement
\* whose transport failed with that text.
C17_SameReasonBothStrategies ==
    vOut.done => vOut.direct.errorReason = vOut.delegated.errorReason

\* The hint each kind carries, in the executor and in the facilitator.
ExecutorHint(code) ==
    CASE code = "INSUFFICIENT_GAS" -> "Fund the payer wallet with enough AVAX"
      [] code = "INSUFFICIENT_USDC" -> "Fund the payer wallet with enough USDC"
      [] code = "TRANSACTION_REVERTED" ->
            "Common causes: expired authorization, reused nonce, invalid signature"
      [] code = "NONCE_ISSUE" -> "Retry with a fresh transaction"
      [] code = "REVERT_REASON" -> "Check token contract requirements"
      [] code = "UNKNOWN_ERROR" -> "Check logs above for details"
      [] OTHER -> "no such kind"
FacilitatorHint(code) ==
    CASE code = "INSUFFICIENT_GAS" -> "Fund the facilitator EVM wallet with test AVAX"
      [] code = "INSUFFICIENT_USDC" -> "Ensure the payer wallet has enough USDC"
      [] code = "TRANSACTION_REVERTED" ->
            "Common causes: expired authorization, reused nonce, invalid signature"
      [] code = "UNKNOWN_ERROR" -> "Check logs above and verify the network"
      [] OTHER -> "no such kind"

\* C18 as stated: every failure gets one of the five kinds (gas, funds, reverted,
\* nonce conflict, unknown), each with its fixed hint.
C18_FiveKinds ==
    vOut.done =>
        /\ vOut.parsed.code \in {"INSUFFICIENT_GAS", "INSUFFICIENT_USDC", "TRANSACTION_REVERTED",
                                 "NONCE_ISSUE", "UNKNOWN_ERROR"}
        /\ vOut.parsed.suggestion = ExecutorHint(vOut.parsed.code)

\* C18: the executor's classifier gives every failure exactly one of six kinds (gas,
\* funds, reverted, nonce conflict, decoded revert reason, unknown) and the
\* facilitator's one of four (gas, funds, reverted, unknown); the hint is fixed by the
\* kind and does not depend on the failure text.
C18_KindsAndHints ==
    vOut.done =>
        /\ vOut.parsed.code \in {"INSUFFICIENT_GAS", "INSUFFICIENT_USDC", "TRANSACTION_REVERTED",
                                 "NONCE_ISSUE", "REVERT_REASON", "UNKNOWN_ERROR"}
        /\ vOut.parsed.suggestion = ExecutorHint(vOut.parsed.code)
        /\ vOut.facilitatorParsed.code \in {"INSUFFICIENT_GAS", "INSUFFICIENT_USDC",
                                            "TRANSACTION_REVERTED", "UNKNOWN_ERROR"}
        /\ vOut.facilitatorParsed.suggestion = FacilitatorHint(vOut.facilitatorParsed.code)

\* A failure carrying a revert reason and no known phrase is classified as a decoded
\* revert reason, with that kind's hint.
C18_Witness ==
    /\ vOut.done
    /\ vIn.revertReason # "none"
    /\ vOut.parsed.code = "REVERT_REASON"
    /\ vOut.parsed.suggestion = "Check token contract requirements"

\* The failure has none of the phrases a classifier looks for and no revert reason.
Unmatched ==
    /\ vIn.message \cap {"insufficient funds for gas", "gas required exceeds allowance",
                         "transfer amount exceeds balance", "Insufficient USDC",
                         "execution reverted", "transaction reverted",
                         "nonce too low", "replacement transaction underpriced"} = {}
    /\ vIn.revertReason = "none"

\* C19: a failure that matches no pattern is classified as unknown and its message is
\* kept as it is: it is the message of the classification, the errorReason of the
\* settlement in both strategies and the invalidReason of the verification.
C19_UnknownKeepsMessage ==
    (vOut.done /\ Unmatched) =>
        /\ vOut.parsed.code = "UNKNOWN_ERROR"
        /\ vOut.parsed.message = vIn.message
        /\ vOut.facilitatorParsed.code = "UNKNOWN_ERROR"
        /\ vOut.facilitatorParsed.message = vIn.message
        /\ ~vOut.delegated.success /\ vOut.delegated.errorReason = vIn.message
        /\ ~vOut.direct.success /\ vOut.direct.errorReason = vIn.message
        /\ ~vOut.verify.isValid /\ vOut.verify.invalidReason = vIn.message

\* An unreachable facilitator: "fetch failed" comes back as the errorReason.
C19_Witness ==
    /\ vOut.done
    /\ exec.mode = "facilitator"
    /\ vIn = Err(Text({"fetch failed"}), "none")
    /\ vOut.parsed.code = "UNKNOWN_ERROR"
    /\ vOut.delegated.errorReason = Text({"fetch failed"})

-----------------------------------------------------------------------------
(* Properties of the responses *)

\* C20: a failed verification is answered by a rejection, status 402 with the
\* invalidReason ("Invalid payment" when there is none), no result and no
\* settlement; a failed settlement is answered in the normal shape, status 200 with
\* the settlement and the result, and success = false; the success of a response
\* that carries a settlement is the settlement's.
C20_FailureAsymmetry ==
    \A r \in Reqs :
        reqs[r].pc = "done" =>
            /\ (reqs[r].verifyDone /\ ~reqs[r].verify.isValid) =>
                  /\ reqs[r].status = 402 /\ ~reqs[r].success
                  /\ reqs[r].reason = RejectionReason(reqs[r].verify)
                  /\ reqs[r].reason # NoReason
                  /\ ~reqs[r].hasResult /\ ~reqs[r].analyzed
                  /\ ~SettlementReturned(r)
            /\ SettlementReturned(r) =>
                  /\ reqs[r].status = 200 /\ reqs[r].hasResult
                  /\ reqs[r].success = reqs[r].settlement.success

\* One request was rejected for its verification and another answered normally with
\* a failed settlement.
C20_Witness ==
    \E r1, r2 \in Reqs :
        /\ reqs[r1].pc = "done" /\ reqs[r1].verifyDone /\ ~reqs[r1].verify.isValid
        /\ reqs[r1].status = 402
        /\ reqs[r1].reason = Reason("Signature does not match payer address")
        /\ reqs[r2].pc = "done" /\ SettlementReturned(r2) /\ ~reqs[r2].settlement.success
        /\ reqs[r2].status = 200 /\ reqs[r2].hasResult /\ ~reqs[r2].success

-----------------------------------------------------------------------------
(* Properties of the challenge and of the requirement it carries *)

\* A request to analyze-paid that brought no payment payload.
Unpaid(r) == reqs[r].endpoint = "analyze-paid" /\ reqs[r].noPayment

\* C21: a request to analyze-paid that brings no payment payload, in the header or
\* in the body, is answered 402 with the challenge {x402Version 2, accepts, error,
\* resource} whose accepts holds exactly one requirement, the executor's own; it is
\* never verified, analysed or settled.
C21_ChallengeWhenUnpaid ==
    \A r \in Reqs :
        Unpaid(r) =>
            /\ reqs[r].pc = "done" /\ reqs[r].status = 402
            /\ reqs[r].challenge.x402Version = 2
            /\ Len(reqs[r].challenge.accepts) = 1
            /\ reqs[r].challenge.accepts[1] = exec.requirements
            /\ reqs[r].challenge.error # "" /\ reqs[r].challenge.resource.name # ""
            /\ ~reqs[r].verifyDone /\ ~reqs[r].analyzed
            /\ reqs[r].settleCalls = 0 /\ reqs[r].broadcasts = 0
            /\ reqs[r].facilitatorSettles = 0 /\ reqs[r].settlement = NoSettlement

C21_Witness ==
    \E r \in Reqs :
        /\ Unpaid(r) /\ reqs[r].status = 402
        /\ reqs[r].challenge = createPaymentRequiredResponse(exec)

\* The configured price, and floor(price * 1_000_000) of the decimal that was
\* configured, truncated toward zero.
ConfiguredPrice == merchantOptions(vIn).price
TruncatedMicros(price) ==
    IF price.tenths >= 0 THEN price.tenths \div 10 ELSE 0 - ((0 - price.tenths) \div 10)

\* C22: for every configured price and network, the amount of the requirement is
\* floor(price * 1_000_000) as a base-10 integer string, the price truncated toward
\* zero at its 6th fractional decimal.
C22_AmountIsTruncatedPrice ==
    vOut.phase = "listening" =>
        /\ ConfiguredPrice.kind = "finite"
        /\ exec.requirements.amount = Num(TruncatedMicros(ConfiguredPrice))

\* C23: the amount of every executor that startup accepts is a non-negative integer
\* string, and the amount check of a verification never fails to parse it.
C23_AmountIsNaturalString ==
    /\ vOut.phase = "listening" =>
          exec.requirements.amount.kind = "int" /\ exec.requirements.amount.n >= 0
    /\ \A r \in Reqs :
          reqs[r].verifyDone /\ exec.mode = "direct" =>
              reqs[r].verify.invalidReason # Reason("Invalid payment amount provided")

\* C24: a server listens only if its network resolved to a CAIP-2 identifier, an
\* asset address, an asset name and, in direct mode, a chain id and an RPC endpoint;
\* and the signing domain built for a request carries the chain id of the configured
\* network, never that of another one.
C24_UnresolvedNetworkRejected ==
    /\ vOut.phase = "listening" =>
          /\ exec.network # "throw" /\ exec.requirements.asset # "" /\ exec.assetName # ""
          /\ exec.mode = "direct" =>
                /\ exec.rpcUrl # ""
                /\ ~Falsy(exec.chainId) \/ ~Falsy(Eip155Reference(exec.network))
    /\ vOut.domainBuilt =>
          vOut.domain.chainId \in {exec.chainId, Eip155Reference(exec.network)}

-----------------------------------------------------------------------------
(* Properties of the signature check *)

\* The payload carries a signature made over a domain whose chain id is not the one
\* the server builds its domain with.
SignedForOtherChain ==
    /\ vIn.hasAuth /\ vIn.signature.kind = "ok"
    /\ vIn.signature.domain.chainId # buildEip712Domain(exec, exec.requirements).chainId
InsideWindow == ~TimingUnreadable /\ ~NotYetValid /\ ~Expired

\* C25: an authorization signed over a domain with another chain id than the
\* server's never verifies locally: the result is invalid, by the signature check
\* (mismatch or failed recovery) when the earlier checks pass, and verifyPayment of a
\* direct-mode executor refuses it too, so that no settlement follows.
C25_WrongChainNeverVerifies ==
    SignedForOtherChain =>
        /\ vOut.done =>
              /\ ~vOut.result.isValid
              /\ (ChecksOneToFourPass /\ InsideWindow) =>
                    /\ vOut.result.invalidReason \in SignatureReasons
                    /\ vOut.result.recoveryAttempted
        /\ (vOut.publicDone /\ exec.mode = "direct") => ~vOut.publicResult.isValid

\* The payer's own signature over the right authorization, for chain 84532, refused
\* as not matching the payer.
C25_Witness ==
    /\ SignedForOtherChain /\ vOut.done
    /\ vIn.signature.signer = vIn.authorization.from.id
    /\ vIn.signature.msg = TypedMessage(vIn.authorization)
    /\ ChecksOneToFourPass /\ InsideWindow
    /\ vOut.result.invalidReason = Reason("Signature does not match payer address")

\* The replaced field holds another value than the signed one: another address
\* (whatever the case it is written in), another number, another nonce.
FieldChanged ==
    LET old == vIn.authorization[vOut.field]
        new == vOut.payload.authorization[vOut.field]
    IN /\ vOut.tampered
       /\ IF vOut.field \in {"from", "to"} THEN toLowerCase(new) # toLowerCase(old)
          ELSE new # old

\* C26: when one of from, to, value, validAfter, validBefore, nonce of a signed
\* payload is changed and the signature kept, the verifier never finds the payload
\* valid; where it gets as far as the signature, recovery fails or gives an address
\* that is not the payer's.
C26_TamperEvident ==
    (FieldChanged /\ vOut.done) =>
        /\ ~vOut.result.isValid
        /\ vOut.result.payer # Addr(vIn.signature.signer, "checksum")
        /\ vOut.result.recoveryAttempted => vOut.result.invalidReason \in SignatureReasons

\* The nonce of a payload that verifies was changed, and the signature check
\* refused the changed payload.
C26_Witness ==
    /\ FieldChanged /\ vOut.done /\ vOut.field = "nonce"
    /\ verifyPaymentLocally(exec, vIn, exec.requirements, now).isValid
    /\ vOut.result.invalidReason = Reason("Signature does not match payer address")

-----------------------------------------------------------------------------
(* Properties of the test client's run *)

\* C27: the payload the test client builds from the challenge's requirement (to =
\* payTo, value = amount, validAfter = 0, validBefore = time of signing +
\* maxTimeoutSeconds, domain from extra, network and asset) passes the local
\* verification of a direct-mode server with the client's address as payer, as long
\* as it is verified before validBefore.
C27_RoundTrip ==
    LET q == reqs[PaidRequest]
    IN (q.verifyDone /\ exec.mode = "direct" /\ now < q.payload.authorization.validBefore.n) =>
          /\ q.verify.isValid
          /\ q.verify.payer = Addr("payer", "checksum")
          /\ q.verify.invalidReason = NoReason

\* The client's payload was verified some seconds after it was signed.
C27_Witness ==
    LET q == reqs[PaidRequest]
    IN /\ q.verifyDone /\ exec.mode = "direct" /\ q.verify.isValid
       /\ q.payload = vOut.payload
       /\ q.payload.authorization.validBefore.n < now + exec.requirements.maxTimeoutSeconds
       /\ q.payload.authorization.value = exec.requirements.amount

\* C28: the paid request the test client sends with depth "standard", when its
\* payload verifies, is answered with a status below 400.
C28_PaidRequestAccepted ==
    LET q == reqs[PaidRequest]
    IN (vOut.depth = "standard" /\ q.pc = "done" /\ q.verifyDone /\ q.verify.isValid) =>
          q.status < 400

-----------------------------------------------------------------------------
(* Properties of the facilitator *)

\* The configured network names a chain the facilitator knows, by its name or by
\* its CAIP-2 identifier.
FacilitatorNetworkKnown ==
    \/ EvmNetworkOf(vIn) \in VIEM_CHAINS
    \/ \E k \in VIEM_CHAINS : NETWORK_TO_CAIP2[k] = EvmNetworkOf(vIn)

\* C29: without a signing key, or with a network that resolves to no supported chain
\* and CAIP-2 identifier, the facilitator ends before it listens, and no verify or
\* settle request is ever served; a facilitator that serves has its chain and its
\* identifier.
C29_FacilitatorFailsAtStartup ==
    /\ (vIn.EVM_PRIVATE_KEY = "" \/ ~FacilitatorNetworkKnown) =>
          /\ vOut.server.phase \in {"configured", "exited"}
          /\ ~vOut.verify.done /\ ~vOut.settle.done
    /\ (vOut.verify.done \/ vOut.settle.done) =>
          /\ vOut.server.phase = "listening"
          /\ vOut.server.chain \in VIEM_CHAINS
          /\ vOut.server.caip2 = NETWORK_TO_CAIP2[vOut.server.chain]

\* A key is there, but the network is one the facilitator has no chain for.
C29_Witness ==
    /\ vOut.server.phase = "exited"
    /\ vIn.EVM_PRIVATE_KEY # ""
    /\ vIn.FACILITATOR_EVM_NETWORK = "eip155:3338"

\* C30: the response of /verify and of /settle is what the underlying verify or
\* settle gave (its result, or the classification of its error), whatever the hooks
\* did.
C30_HooksNeverChangeOutcome ==
    /\ (vOut.verify.done /\ vOut.verify.response.status # 400) =>
          vOut.verify.response = postVerify(TRUE, vOut.verify.underlying)
    /\ (vOut.settle.done /\ vOut.settle.response.status # 400) =>
          vOut.settle.response = postSettle(TRUE, vOut.settle.underlying, vOut.server.caip2)

-----------------------------------------------------------------------------
(* Properties of the signing domain *)

\* C31: two executors that differ only in the configured asset name, asset address
\* or chain id give the same result of local verification for the same payload.
C31_DomainFromPayload ==
    (vOut.firstDone /\ vOut.secondDone) => vOut.first = vOut.second

-----------------------------------------------------------------------------
(* Properties of the requirement *)

\* A step in which request r is verified.
VerifiedIn(r) == reqs[r].pc = "verify" /\ reqs'[r].pc # "verify"

\* A step of local verification leaves the executor and the chain as they are and
\* sends nothing to the chain or to the facilitator.
LocalVerificationIsPure ==
    \A r \in Reqs :
        (exec.mode = "direct" /\ VerifiedIn(r)) =>
            /\ exec' = exec /\ usedNonces' = usedNonces
            /\ reqs'[r].broadcasts = 0 /\ reqs'[r].facilitatorSettles = 0
            /\ reqs'[r].settleCalls = 0

\* Every challenge that was sent holds the executor's requirement and nothing else.
ChallengeIsRequirement ==
    \A r \in Reqs :
        reqs[r].paymentStatus = "payment-required" =>
            reqs[r].challenge.accepts = <<exec.requirements>>

\* C32: no challenge, verification, settlement or initialize changes a field of the
\* executor's requirement; every challenge returns that requirement; local
\* verification changes no state of the executor and calls neither chain nor
\* facilitator.
C32_RequirementImmutable ==
    /\ [][exec'.requirements = exec.requirements /\ LocalVerificationIsPure]_vars
    /\ []ChallengeIsRequirement

\* After a settlement that succeeded on one request, another request was answered
\* with the challenge, on each endpoint's way of sending it.
C32_Witness ==
    \E r1, r2 \in Reqs :
        /\ reqs[r1].settlement.success
        /\ reqs[r2].paymentStatus = "payment-required"
        /\ reqs[r2].challenge.accepts = <<exec.requirements>>

-----------------------------------------------------------------------------
(* Properties of the payload's source *)

\* The request was answered with an error and nothing of the paid flow ran.
Refused(q) ==
    /\ q.pc = "done" /\ q.status = 500 /\ ~q.success
    /\ ~q.verifyDone /\ ~q.analyzed
    /\ q.settleCalls = 0 /\ q.broadcasts = 0 /\ q.facilitatorSettles = 0

\* C33: a header that is a string is the payload used, whatever the body holds (a
\* header whose JSON is null is no payload, and the body's is not taken instead);
\* without the header the body's field is used; a header that is no JSON is answered
\* with an error, and nothing is verified, analysed or settled.
C33_HeaderBeforeBody ==
    LET q == reqs[PayloadRequest] IN
    q.pc # "new" =>
        CASE vIn.header.kind = "json" -> q.hasPayload /\ q.payload = vIn.header.payload
          [] vIn.header.kind = "null" -> ~q.hasPayload /\ q.status = 402 /\ ~q.verifyDone
          [] vIn.header.kind = "invalid" -> Refused(q)
          [] vIn.header.kind = "absent" ->
                /\ q.hasPayload = vIn.body.hasPayload
                /\ q.payload = vIn.body.payload
                /\ ~vIn.body.hasPayload => q.status = 402

\* Header and body held different payloads and the header's was settled.
C33_Witness ==
    LET q == reqs[PayloadRequest] IN
    /\ vIn.header.kind = "json" /\ vIn.body.hasPayload
    /\ vIn.body.payload # vIn.header.payload
    /\ q.payload = vIn.header.payload /\ q.settlement.success

-----------------------------------------------------------------------------
(* Properties of the settlement mode *)

\* The mode by the precedence: SETTLEMENT_MODE, then FACILITATOR_URL, then
\* PRIVATE_KEY, then facilitator.
ModeByPrecedence(mode, facilitatorUrl, privateKey) ==
    CASE mode \in {"direct", "local"} -> "direct"
      [] mode = "facilitator" -> "facilitator"
      [] OTHER -> IF facilitatorUrl # "" THEN "facilitator"
                  ELSE IF privateKey # "" THEN "direct"
                  ELSE "facilitator"

\* C34: a listening server's executor has the mode the precedence gives; direct mode
\* without PRIVATE_KEY never listens; and the executor's own default is the mode the
\* server selects from the same FACILITATOR_URL and PRIVATE_KEY.
C34_ModePrecedence ==
    LET selected == ModeByPrecedence(vIn.SETTLEMENT_MODE, vIn.FACILITATOR_URL, vIn.PRIVATE_KEY)
    IN /\ vOut.phase = "listening" => exec.mode = selected
       /\ (selected = "direct" /\ vIn.PRIVATE_KEY = "") => vOut.phase \in {"configured", "exited"}
       /\ vOut.constructed =>
             vOut.ownMode = ModeByPrecedence("", vIn.FACILITATOR_URL, vIn.PRIVATE_KEY)

\* Both a facilitator URL and a private key are configured and no mode is named:
\* the server listens in facilitator mode and the executor's default agrees.
C34_Witness ==
    /\ vIn.SETTLEMENT_MODE = "" /\ vIn.FACILITATOR_URL # "" /\ vIn.PRIVATE_KEY # ""
    /\ vOut.phase = "listening" /\ exec.mode = "facilitator"
    /\ vOut.constructed /\ vOut.ownMode = "facilitator"

\* C35: the chain id of the domain that local verification builds is the configured
\* override if there is one that is a number, otherwise the built-in chain id of
\* the configured network, otherwise the reference of the requirement's eip155
\* network; never the default of another chain.
C35_DomainChainId ==
    vOut.domainBuilt =>
        LET override == IF vIn.CHAIN_ID = "" THEN 0 ELSE parseInt(vIn.CHAIN_ID)
        IN vOut.domain.chainId =
              IF ~Falsy(override) THEN override
              ELSE IF vIn.NETWORK \in LegacyNetworks THEN BUILT_IN_NETWORKS[vIn.NETWORK].chainId
              ELSE Eip155Reference(exec.requirements.network)

-----------------------------------------------------------------------------
(* Properties of the order of analysis and settlement *)

Unsettled(q) ==
    /\ q.settleCalls = 0 /\ q.broadcasts = 0 /\ q.facilitatorSettles = 0
    /\ q.settlement = NoSettlement

-----------------------------------------------------------------------------
(* Properties of the constructed executor *)

\* The executor has what its mode needs, and no verification ran into a missing
\* facilitator URL.
WalletAndUrlConfigured ==
    /\ exec.mode = "direct" => exec.hasWallet
    /\ exec.mode = "facilitator" => exec.facilitatorUrl # ""
    /\ \A r \in Reqs :
          /\ ~includes(reqs[r].verify.invalidReason, "Facilitator URL is not configured.")
          /\ ~includes(reqs[r].settlement.errorReason, "Settlement wallet not configured")

\* C37: the executor of a listening server has, in direct mode, a settlement wallet
\* and a chain id that is a number of a chain, and in facilitator mode a facilitator
\* URL; neither "Settlement wallet not configured" nor "Facilitator URL is not
\* configured." is ever the answer.
C37_ConfiguredForMode ==
    vOut.phase = "listening" =>
        /\ WalletAndUrlConfigured
        /\ exec.mode = "direct" => exec.chainId > 0

-----------------------------------------------------------------------------
(* Properties of the network tables *)

\* The CAIP-2 identifier of an EVM chain id.
Caip2Of(chainId) == "eip155:" \o ToString(chainId)

\* C38: NETWORK_MAP and BUILT_IN_NETWORKS have the same names, each name's
\* identifier is "eip155:" followed by its built-in chain id, and the facilitator's
\* table gives every name it knows the same identifier; so the requirement's network
\* and the chain id of the verifier's domain name the same chain when nothing is
\* overridden, and a facilitator for the same name serves that chain.
C38_TablesAgree ==
    /\ DOMAIN NETWORK_MAP = DOMAIN BUILT_IN_NETWORKS
    /\ \A n \in DOMAIN NETWORK_MAP : NETWORK_MAP[n] = Caip2Of(BUILT_IN_NETWORKS[n].chainId)
    /\ DOMAIN NETWORK_TO_CAIP2 \subseteq DOMAIN NETWORK_MAP
    /\ \A n \in DOMAIN NETWORK_TO_CAIP2 : NETWORK_TO_CAIP2[n] = NETWORK_MAP[n]
    /\ vOut.constructed => exec.requirements.network = Caip2Of(exec.chainId)
    /\ vOut.domainBuilt => exec.requirements.network = Caip2Of(vOut.domain.chainId)
    /\ (vOut.constructed /\ vOut.facilitator.phase = "listening") =>
          vOut.facilitator.caip2 = exec.requirements.network

\* The domain was built for Avalanche mainnet and a facilitator listens for it.
C38_Witness ==
    /\ vIn.options.network = "avalanche" /\ vOut.domainBuilt /\ vOut.domain.chainId = 43114
    /\ vOut.facilitator.phase = "listening" /\ vOut.facilitator.caip2 = "eip155:43114"

-----------------------------------------------------------------------------
(* Properties of the payment status of /process *)

\* Where a request of /process stands for each payment status of its task.
ProcessProgression(q) ==
    /\ q.paymentStatus = "payment-required" =>
          /\ q.pc = "done" /\ q.status = 200 /\ q.challenge # NoChallenge
          /\ ~q.verifyDone /\ ~q.analyzed /\ Unsettled(q)
    /\ q.paymentStatus = "payment-rejected" =>
          /\ q.pc = "done" /\ q.status = 402 /\ q.taskState = "failed"
          /\ q.verifyDone /\ ~q.verify.isValid /\ ~q.analyzed /\ Unsettled(q)
    /\ q.paymentStatus = "payment-verified" =>
          q.verifyDone /\ q.verify.isValid
    /\ q.analyzed =>
          q.paymentStatus \in {"payment-verified", "payment-completed", "payment-failed"}
    /\ q.paymentStatus \in {"payment-completed", "payment-failed"} =>
          /\ q.pc = "done" /\ q.analyzed /\ q.settleCalls = 1
          /\ (q.paymentStatus = "payment-completed") = q.settlement.success

\* The task of the final response carries the status the settlement decides.
FinalTaskStatus(q) ==
    q.pc = "done" /\ q.hasResult =>
        q.returnedStatus = IF q.settlement.success THEN "payment-completed"
                           ELSE "payment-failed"

\* C39: in /process the payment status goes from payment-required (challenge, nothing
\* verified) or payment-rejected (task failed, 402, no service, no settlement) to
\* payment-verified before the service runs and then to payment-completed or
\* payment-failed, and the task of the final response carries payment-completed
\* exactly when the settlement succeeded and payment-failed otherwise, whatever the
\* service enqueued.
C39_ProcessPaymentStatus ==
    \A r \in Reqs :
        reqs[r].endpoint = "process" =>
            ProcessProgression(reqs[r]) /\ FinalTaskStatus(reqs[r])

-----------------------------------------------------------------------------
(* Properties of the facilitator's answers *)

\* The body lacked the payload or the requirements: 400, and neither the scheme nor
\* a hook ran.
RefusedUncalled(call) ==
    ~call.presentBody =>
        /\ call.response.status = 400
        /\ ~call.response.called /\ call.fault = "none" /\ call.outcome = NoOutcome

\* facilitator.verify or facilitator.settle threw: 500 with error, code and
\* suggestion.
ExceptionAnswered(call) ==
    (call.presentBody /\ call.outcome.threw) =>
        /\ call.response.status = 500
        /\ call.response.error.message # NoReason
        /\ call.response.error.code # "" /\ call.response.error.suggestion # ""

====
